---- MODULE Spec2Model ----
(***************************************************************************)
(* Prediction and valuation engine of the NCAA / NBA basketball pick       *)
(* system: src/analyze_games.py (class NCAAAnalyzer) and                   *)
(* src/nba/nba_analyzer.py (class NBAAnalyzer).                            *)
(*                                                                         *)
(* Numbers.  The code computes in binary floating point.  The model        *)
(* computes the same expressions exactly, in fixed point: a quantity in    *)
(* points (spread, total, edge, adjustment) is an integer number of        *)
(* 1/10000 point (PT units), a probability an integer number of 1/1000000  *)
(* (PROB units).  round(x, 1) is modelled on the exact decimal value,      *)
(* ties to even (Python's rule for a value that is exactly representable). *)
(* An optional value (Python None) is the empty tuple, a present value v   *)
(* the one-element tuple <<v>>.                                            *)
(***************************************************************************)
EXTENDS Integers, Sequences, FiniteSets, TLC

VARIABLES
    sport,            \* "NCAA" or "NBA": which analyzer class is running
    games,            \* self.games, the list of the day's games
    idx,              \* position of the loop over the games / the analyses
    analyses,         \* the list analyze_all_games builds
    pc,               \* where the run is
    spread_picks,     \* generate_report: spread picks collected so far
    totals_picks,     \* generate_report: totals picks collected so far
    moneyline_picks,  \* generate_report: moneyline picks collected so far
    avoid_games,      \* generate_report (NCAA): the games-to-avoid list
    all_ranked,       \* generate_report (NBA): the ranked list of top picks
    cfg_bound,        \* generate_report (NCAA): the function-local names bound
                      \* by "from config import ..." have been assigned
    call,             \* the latest call of a valuation function: inputs, result
    prev,             \* the call before it
    team,             \* a team's entry of the data file (injury report, depth)
    picks_file,       \* nba_picks_history.json as load_picks returns it
    today,            \* date.today(), a day number
    tracker_op,       \* the latest operation of the pick tracker and its input
    line_history      \* lines_YYYYMMDD.json as load_line_history returns it

vars == <<sport, games, idx, analyses, pc, spread_picks, totals_picks,
          moneyline_picks, avoid_games, all_ranked, cfg_bound, call, prev,
          team, picks_file, today, tracker_op, line_history>>

(***************************************************************************)
(* Fixed point                                                             *)
(***************************************************************************)
PT == 10 * 1000            \* one point
TENTH == PT \div 10        \* 0.1 point
PROB == 1000 * 1000        \* probability 1.0

None == << >>
Some(v) == <<v>>
IsNone(x) == x = None
Val(x) == x[1]

Abs(x) == IF x < 0 THEN -x ELSE x
Max(a, b) == IF a >= b THEN a ELSE b
Min(a, b) == IF a <= b THEN a ELSE b

\* round(x, 1) of a quantity in PT units (unit u = TENTH), ties to even
RoundTo(x, u) ==
    LET q == x \div u
        r == x % u
    IN  IF 2 * r < u THEN q * u
        ELSE IF 2 * r > u THEN (q + 1) * u
        ELSE IF q % 2 = 0 THEN q * u ELSE (q + 1) * u

Round1(x) == RoundTo(x, TENTH)

(***************************************************************************)
(* The standard normal distribution function (scipy.stats.norm.cdf, and    *)
(* 0.5 * (1 + erf(z / sqrt 2)) in the NCAA code), as a table of Phi(z) for *)
(* z = 0.00, 0.01, ..., 4.01 in PROB units with linear interpolation       *)
(* between entries (error below 0.00001); beyond z = 4 the last entry.     *)
(***************************************************************************)
NormCdfTable == <<
    500000, 503989, 507978, 511966, 515953, 519939, 523922, 527903, 531881, 535856,
    539828, 543795, 547758, 551717, 555670, 559618, 563559, 567495, 571424, 575345,
    579260, 583166, 587064, 590954, 594835, 598706, 602568, 606420, 610261, 614092,
    617911, 621720, 625516, 629300, 633072, 636831, 640576, 644309, 648027, 651732,
    655422, 659097, 662757, 666402, 670031, 673645, 677242, 680822, 684386, 687933,
    691462, 694974, 698468, 701944, 705401, 708840, 712260, 715661, 719043, 722405,
    725747, 729069, 732371, 735653, 738914, 742154, 745373, 748571, 751748, 754903,
    758036, 761148, 764238, 767305, 770350, 773373, 776373, 779350, 782305, 785236,
    788145, 791030, 793892, 796731, 799546, 802337, 805105, 807850, 810570, 813267,
    815940, 818589, 821214, 823814, 826391, 828944, 831472, 833977, 836457, 838913,
    841345, 843752, 846136, 848495, 850830, 853141, 855428, 857690, 859929, 862143,
    864334, 866500, 868643, 870762, 872857, 874928, 876976, 879000, 881000, 882977,
    884930, 886861, 888768, 890651, 892512, 894350, 896165, 897958, 899727, 901475,
    903200, 904902, 906582, 908241, 909877, 911492, 913085, 914657, 916207, 917736,
    919243, 920730, 922196, 923641, 925066, 926471, 927855, 929219, 930563, 931888,
    933193, 934478, 935745, 936992, 938220, 939429, 940620, 941792, 942947, 944083,
    945201, 946301, 947384, 948449, 949497, 950529, 951543, 952540, 953521, 954486,
    955435, 956367, 957284, 958185, 959070, 959941, 960796, 961636, 962462, 963273,
    964070, 964852, 965620, 966375, 967116, 967843, 968557, 969258, 969946, 970621,
    971283, 971933, 972571, 973197, 973810, 974412, 975002, 975581, 976148, 976705,
    977250, 977784, 978308, 978822, 979325, 979818, 980301, 980774, 981237, 981691,
    982136, 982571, 982997, 983414, 983823, 984222, 984614, 984997, 985371, 985738,
    986097, 986447, 986791, 987126, 987455, 987776, 988089, 988396, 988696, 988989,
    989276, 989556, 989830, 990097, 990358, 990613, 990863, 991106, 991344, 991576,
    991802, 992024, 992240, 992451, 992656, 992857, 993053, 993244, 993431, 993613,
    993790, 993963, 994132, 994297, 994457, 994614, 994766, 994915, 995060, 995201,
    995339, 995473, 995604, 995731, 995855, 995975, 996093, 996207, 996319, 996427,
    996533, 996636, 996736, 996833, 996928, 997020, 997110, 997197, 997282, 997365,
    997445, 997523, 997599, 997673, 997744, 997814, 997882, 997948, 998012, 998074,
    998134, 998193, 998250, 998305, 998359, 998411, 998462, 998511, 998559, 998605,
    998650, 998694, 998736, 998777, 998817, 998856, 998893, 998930, 998965, 998999,
    999032, 999065, 999096, 999126, 999155, 999184, 999211, 999238, 999264, 999289,
    999313, 999336, 999359, 999381, 999402, 999423, 999443, 999462, 999481, 999499,
    999517, 999534, 999550, 999566, 999581, 999596, 999610, 999624, 999638, 999651,
    999663, 999675, 999687, 999698, 999709, 999720, 999730, 999740, 999749, 999758,
    999767, 999776, 999784, 999792, 999800, 999807, 999815, 999822, 999828, 999835,
    999841, 999847, 999853, 999858, 999864, 999869, 999874, 999879, 999883, 999888,
    999892, 999896, 999900, 999904, 999908, 999912, 999915, 999918, 999922, 999925,
    999928, 999931, 999933, 999936, 999938, 999941, 999943, 999946, 999948, 999950,
    999952, 999954, 999956, 999958, 999959, 999961, 999963, 999964, 999966, 999967,
    999968, 999970 >>

\* Phi(num / den) for den > 0, in PROB units
NormCdf(num, den) ==
    LET a == Abs(num)
        k == a * 1000
        z == (k \div den) * 100 + ((k % den) * 100) \div den   \* z in 1/100000
        i == z \div 1000
        f == z % 1000
        up == IF i >= 400 THEN NormCdfTable[401]
              ELSE NormCdfTable[i + 1]
                   + ((NormCdfTable[i + 2] - NormCdfTable[i + 1]) * f) \div 1000
    IN  IF num >= 0 THEN up ELSE PROB - up

(***************************************************************************)
(* NCAAAnalyzer: value assessment (src/analyze_games.py)                   *)
(***************************************************************************)
NCAA_SpreadStars(abs_value) ==
    IF abs_value >= 6 * PT THEN 5
    ELSE IF abs_value >= 5 * PT THEN 4
    ELSE IF abs_value >= 4 * PT THEN 3
    ELSE IF abs_value >= 35 * TENTH THEN 2
    ELSE IF abs_value >= 3 * PT THEN 1
    ELSE 0

NCAA_SpreadPickSide(value) ==
    IF value >= 3 * PT THEN "AWAY"
    ELSE IF value <= -3 * PT THEN "HOME"
    ELSE "PASS"

\* final_predicted = predicted_spread + four_factors_edge + situational_adj,
\* value = actual_spread - final_predicted
NCAA_calculate_spread_value(predicted_spread, actual_spread, four_factors_edge, situational_adj) ==
    LET final_predicted == predicted_spread + four_factors_edge + situational_adj
    IN  IF IsNone(actual_spread)
        THEN [pick_team |-> "NO_LINE", confidence_stars |-> 0, value_points |-> 0,
              final_predicted |-> Some(Round1(final_predicted)),
              actual_spread |-> None, hit_pct |-> None, grade |-> "None"]
        ELSE LET value == Val(actual_spread) - final_predicted
                 pick_team == NCAA_SpreadPickSide(value)
                 stars == NCAA_SpreadStars(Abs(value))
             IN  [pick_team |-> pick_team,
                  confidence_stars |-> IF pick_team # "PASS" THEN stars ELSE 0,
                  value_points |-> Round1(value),
                  final_predicted |-> Some(Round1(final_predicted)),
                  actual_spread |-> actual_spread, hit_pct |-> None, grade |-> "None"]

NCAA_TotalStars(abs_value) ==
    IF abs_value >= 12 * PT THEN 5
    ELSE IF abs_value >= 10 * PT THEN 4
    ELSE IF abs_value >= 9 * PT THEN 3
    ELSE IF abs_value >= 8 * PT THEN 2
    ELSE 0

NCAA_calculate_total_value(predicted_total, actual_total) ==
    IF IsNone(actual_total)
    THEN [pick |-> "NO_LINE", confidence_stars |-> 0, value_points |-> 0,
          predicted_total |-> None, actual_total |-> None]
    ELSE LET value == predicted_total - Val(actual_total)
             pick == IF value >= 8 * PT THEN "OVER"
                     ELSE IF value <= -8 * PT THEN "UNDER" ELSE "PASS"
             stars == NCAA_TotalStars(Abs(value))
         IN  [pick |-> pick,
              confidence_stars |-> IF pick # "PASS" THEN stars ELSE 0,
              value_points |-> Round1(value),
              predicted_total |-> Some(Round1(predicted_total)),
              actual_total |-> actual_total]

\* American odds to implied probability
NCAA_ml_to_implied_prob(ml) ==
    IF ml > 0 THEN (100 * PROB) \div (ml + 100)
    ELSE (Abs(ml) * PROB) \div (Abs(ml) + 100)

\* away win probability from the spread (positive = away is the underdog)
NCAA_spread_to_win_prob(spread) == NormCdf(-spread, 11 * PT)

NCAA_UnderdogMLStars(ml_value) ==
    IF ml_value >= 25 * PT THEN 5
    ELSE IF ml_value >= 20 * PT THEN 4
    ELSE IF ml_value >= 16 * PT THEN 3
    ELSE IF ml_value >= 14 * PT THEN 2
    ELSE IF ml_value >= 12 * PT THEN 1
    ELSE 0

NCAA_FavoriteMLStars(ml_value) ==
    IF ml_value >= 18 * PT THEN 5
    ELSE IF ml_value >= 14 * PT THEN 4
    ELSE IF ml_value >= 11 * PT THEN 3
    ELSE IF ml_value >= 9 * PT THEN 2
    ELSE IF ml_value >= 8 * PT THEN 1
    ELSE 0

NCAA_favorite_threshold == 8 * (PROB \div 100)
NCAA_underdog_threshold == 12 * (PROB \div 100)

NCAA_MLNoLine ==
    [ml_pick |-> "NO_LINE", ml_value |-> 0, ml_stars |-> 0,
     away_ml |-> None, home_ml |-> None,
     hit_pct |-> None, grade |-> "None",
     winner_hit_pct |-> None, winner_grade |-> "None"]

\* odds: None, or <<[best_odds |-> None or <<[away_ml |-> price or None,
\*                                           home_ml |-> price or None]>>]>>.
\* An edge of p percent is p * PT in PROB units, so ml_value (percent, PT
\* units) is the edge itself.
NCAA_calculate_moneyline_value(predicted_spread, odds) ==
    IF IsNone(odds) \/ IsNone(Val(odds).best_odds)
    THEN NCAA_MLNoLine
    ELSE LET best == Val(Val(odds).best_odds)
         IN  IF IsNone(best.away_ml) \/ IsNone(best.home_ml)
             THEN NCAA_MLNoLine
             ELSE
    LET away_ml == Val(best.away_ml)
        home_ml == Val(best.home_ml)
        away_implied == NCAA_ml_to_implied_prob(away_ml)
        home_implied == NCAA_ml_to_implied_prob(home_ml)
        away_model_prob == NCAA_spread_to_win_prob(predicted_spread)
        home_model_prob == PROB - away_model_prob
        away_edge == away_model_prob - away_implied
        home_edge == home_model_prob - home_implied
        away_is_underdog == away_ml > 0
        home_is_underdog == home_ml > 0
        away_threshold == IF away_is_underdog THEN NCAA_underdog_threshold
                          ELSE NCAA_favorite_threshold
        home_threshold == IF home_is_underdog THEN NCAA_underdog_threshold
                          ELSE NCAA_favorite_threshold
        ml_pick == IF away_edge >= away_threshold THEN "AWAY_ML"
                   ELSE IF home_edge >= home_threshold THEN "HOME_ML"
                   ELSE "PASS"
        ml_value == IF ml_pick = "AWAY_ML" THEN away_edge
                    ELSE IF ml_pick = "HOME_ML" THEN home_edge ELSE 0
        is_underdog_pick == \/ (ml_pick = "AWAY_ML" /\ away_is_underdog)
                            \/ (ml_pick = "HOME_ML" /\ home_is_underdog)
        ml_stars == IF is_underdog_pick THEN NCAA_UnderdogMLStars(ml_value)
                    ELSE NCAA_FavoriteMLStars(ml_value)
    IN  [ml_pick |-> ml_pick, ml_value |-> Round1(ml_value), ml_stars |-> ml_stars,
         away_ml |-> Some(away_ml), home_ml |-> Some(home_ml),
         hit_pct |-> None, grade |-> "None",
         winner_hit_pct |-> None, winner_grade |-> "None"]

(***************************************************************************)
(* NBAAnalyzer: value assessment (src/nba/nba_analyzer.py)                 *)
(***************************************************************************)
NBA_SPREAD_STD_DEV == 105 * TENTH

\* STAR_THRESHOLDS = {5: 5.0, 4: 4.0, 3: 3.0, 2: 2.0, 1: 1.5}
NBA_STAR_THRESHOLDS == [s \in 1..5 |-> IF s = 1 THEN 15 * TENTH ELSE s * PT]

\* for s, threshold in sorted(STAR_THRESHOLDS.items(), reverse=True):
\*     if abs_edge >= threshold: stars = s; break
NBA_Stars(abs_edge) ==
    LET hit == {s \in 1..5 : abs_edge >= NBA_STAR_THRESHOLDS[s]}
    IN  IF hit = {} THEN 0 ELSE CHOOSE s \in hit : \A t \in hit : t <= s

\* hit percentage (percent, PT units) to letter grade
NBA_grade_pick(hit_pct) ==
    IF hit_pct >= 70 * PT THEN "A+"
    ELSE IF hit_pct >= 65 * PT THEN "A"
    ELSE IF hit_pct >= 62 * PT THEN "A-"
    ELSE IF hit_pct >= 59 * PT THEN "B+"
    ELSE IF hit_pct >= 56 * PT THEN "B"
    ELSE IF hit_pct >= 54 * PT THEN "B-"
    ELSE IF hit_pct >= 52 * PT THEN "C+"
    ELSE IF hit_pct >= 50 * PT THEN "C"
    ELSE "D"

\* predicted spread (away - home) to away win probability
NBA_spread_to_win_prob(spread) == NormCdf(spread, NBA_SPREAD_STD_DEV)

NBA_SpreadPickSide(edge) ==
    IF edge > 1 * PT THEN "AWAY"
    ELSE IF edge < -1 * PT THEN "HOME"
    ELSE "PASS"

\* edge = predicted_spread + actual_spread (the away team's line)
NBA_calculate_spread_value(predicted_spread, actual_spread) ==
    IF IsNone(actual_spread)
    THEN [pick_team |-> "NO_LINE", confidence_stars |-> 0, value_points |-> 0,
          final_predicted |-> None, actual_spread |-> None,
          hit_pct |-> None, grade |-> "None"]
    ELSE LET edge == predicted_spread + Val(actual_spread)
             abs_edge == Abs(edge)
             hit_pct == Round1(NormCdf(abs_edge, NBA_SPREAD_STD_DEV))
         IN  [pick_team |-> NBA_SpreadPickSide(edge),
              confidence_stars |-> NBA_Stars(abs_edge),
              value_points |-> Round1(edge),
              final_predicted |-> Some(Round1(predicted_spread)),
              actual_spread |-> actual_spread,
              hit_pct |-> Some(hit_pct), grade |-> NBA_grade_pick(hit_pct)]

NBA_calculate_total_value(predicted_total, actual_total) ==
    IF IsNone(actual_total)
    THEN [pick |-> "NO_LINE", confidence_stars |-> 0, value_points |-> 0,
          predicted_total |-> None, actual_total |-> None]
    ELSE LET edge == predicted_total - Val(actual_total)
             abs_edge == Abs(edge)
         IN  [pick |-> IF edge > 4 * PT THEN "OVER"
                       ELSE IF edge < -4 * PT THEN "UNDER" ELSE "PASS",
              confidence_stars |-> NBA_Stars(abs_edge),
              value_points |-> Round1(edge),
              predicted_total |-> Some(Round1(predicted_total)),
              actual_total |-> actual_total]

NBA_implied_prob(odds) ==
    IF odds < 0 THEN (Abs(odds) * PROB) \div (Abs(odds) + 100)
    ELSE (100 * PROB) \div (odds + 100)

NBA_ml_min_edge == 6 * (PROB \div 100)

\* min(5, max(1, int(edge * 25)))
NBA_MLStars(edge) == Min(5, Max(1, (edge * 25) \div PROB))

\* ml_pick is Python None ("None") unless an edge above 0.06 is found
NBA_calculate_moneyline_value(predicted_spread, away_ml, home_ml) ==
    IF IsNone(away_ml) \/ IsNone(home_ml)
    THEN [ml_pick |-> "None", ml_value |-> 0, ml_stars |-> 0,
          away_ml |-> away_ml, home_ml |-> home_ml,
          hit_pct |-> None, grade |-> "None",
          winner_hit_pct |-> None, winner_grade |-> "None"]
    ELSE
    LET model_away_prob == NBA_spread_to_win_prob(predicted_spread)
        model_home_prob == PROB - model_away_prob
        away_edge == model_away_prob - NBA_implied_prob(Val(away_ml))
        home_edge == model_home_prob - NBA_implied_prob(Val(home_ml))
        winner_prob == Max(model_away_prob, model_home_prob)
        base == [ml_pick |-> "None", ml_value |-> 0, ml_stars |-> 0,
                 away_ml |-> away_ml, home_ml |-> home_ml,
                 hit_pct |-> None, grade |-> "None",
                 winner_hit_pct |-> Some(Round1(winner_prob)),
                 winner_grade |-> NBA_grade_pick(winner_prob)]
    IN  IF away_edge > home_edge /\ away_edge > NBA_ml_min_edge
        THEN [base EXCEPT !.ml_pick = "AWAY_ML",
                          !.ml_value = Round1(away_edge),
                          !.ml_stars = NBA_MLStars(away_edge),
                          !.hit_pct = Some(Round1(model_away_prob)),
                          !.grade = NBA_grade_pick(Round1(model_away_prob))]
        ELSE IF home_edge > NBA_ml_min_edge
        THEN [base EXCEPT !.ml_pick = "HOME_ML",
                          !.ml_value = Round1(home_edge),
                          !.ml_stars = NBA_MLStars(home_edge),
                          !.hit_pct = Some(Round1(model_home_prob)),
                          !.grade = NBA_grade_pick(Round1(model_home_prob))]
        ELSE base

(***************************************************************************)
(* NBAAnalyzer.analyze_game: the model spread handed to the valuation      *)
(***************************************************************************)
NBA_LINE_MOVEMENT_CONFIRMATION == 5 * TENTH
NBA_LINE_MOVEMENT_CAUTION == 5 * TENTH
NBA_LINE_MOVEMENT_CONFIRM_THRESHOLD == 10 * TENTH
NBA_LINE_MOVEMENT_CAUTION_THRESHOLD == 15 * TENTH

Clamp(lo, x, hi) == Max(lo, Min(hi, x))

\* lm_adj of analyze_game: the line-movement signal on the capped spread
NBA_line_movement_adj(adjusted_spread, spread_movement, actual_spread) ==
    IF spread_movement # 0 /\ ~IsNone(actual_spread)
    THEN LET model_pick_away == adjusted_spread > 0
             line_moving_away == spread_movement > 0
         IN  IF /\ model_pick_away = line_moving_away
                /\ Abs(spread_movement) >= NBA_LINE_MOVEMENT_CONFIRM_THRESHOLD
             THEN IF model_pick_away THEN NBA_LINE_MOVEMENT_CONFIRMATION
                  ELSE -NBA_LINE_MOVEMENT_CONFIRMATION
             ELSE IF /\ model_pick_away # line_moving_away
                     /\ Abs(spread_movement) >= NBA_LINE_MOVEMENT_CAUTION_THRESHOLD
             THEN IF model_pick_away THEN -NBA_LINE_MOVEMENT_CAUTION
                  ELSE NBA_LINE_MOVEMENT_CAUTION
             ELSE 0
    ELSE 0

\* four_factors: None or <<total_edge>>; total_edge is rounded to 0.01 by
\* calculate_four_factors_edge, so total_edge * 0.15 is exact in PT units
NBA_adjusted_spread(predicted_spread, total_adjustment, four_factors, signal, spread_movement, actual_spread) ==
    LET sit_adj == Clamp(-12 * PT, total_adjustment, 12 * PT)
        ff_adj == IF IsNone(four_factors) THEN 0
                  ELSE (Val(four_factors) * 15) \div 100
        capped == Clamp(-16 * PT, predicted_spread + sit_adj + ff_adj + signal,
                        16 * PT)
    IN  capped + NBA_line_movement_adj(capped, spread_movement, actual_spread)

(***************************************************************************)
(* The spread assessment of one game, as analyze_game of either class      *)
(* calls it.  in: [predicted_spread, actual_spread, four_factors_edge,     *)
(* situational_adj, signal, spread_movement]                               *)
(***************************************************************************)
SpreadValueOf(sp, in) ==
    IF sp = "NCAA"
    THEN NCAA_calculate_spread_value(in.predicted_spread, in.actual_spread,
                                     Val(in.four_factors_edge), in.situational_adj)
    ELSE NBA_calculate_spread_value(
             NBA_adjusted_spread(in.predicted_spread, in.situational_adj,
                                 in.four_factors_edge, in.signal,
                                 in.spread_movement, in.actual_spread),
             in.actual_spread)

TotalValueOf(sp, in) ==
    IF sp = "NCAA"
    THEN NCAA_calculate_total_value(in.predicted_total, in.actual_total)
    ELSE NBA_calculate_total_value(in.predicted_total, in.actual_total)

\* in: [predicted_spread, odds, away_ml, home_ml]: the NCAA function takes
\* the game's odds object, the NBA function the two consensus prices
MoneylineValueOf(sp, in) ==
    IF sp = "NCAA"
    THEN NCAA_calculate_moneyline_value(in.predicted_spread, in.odds)
    ELSE NBA_calculate_moneyline_value(in.predicted_spread, in.away_ml, in.home_ml)

(***************************************************************************)
(* Bounds of the valuation inputs                                          *)
(***************************************************************************)
MaxPred == 2        \* model spreads: whole points within +-MaxPred
MaxLine == 3        \* market spreads: half points within +-MaxLine
MaxTotalDev == 6    \* totals: whole points within +-MaxTotalDev of average
MaxSit == 1         \* situational totals: whole points within +-MaxSit

HALF == PT \div 2
Sports == {"NCAA", "NBA"}
PredGrid == {k * PT : k \in -MaxPred..MaxPred}
LineGrid == {None} \cup {Some(h * HALF) : h \in -2 * MaxLine..2 * MaxLine}
SitGrid == {k * PT : k \in -MaxSit..MaxSit}
FFGrid == {-2 * PT, 0, 2 * PT}
SignalGrid == {0, 3 * TENTH}
MovementGrid == {-2 * PT, -1 * PT, 0, 1 * PT, 2 * PT}
AvgTotalOf(sp) == IF sp = "NCAA" THEN 1435 * TENTH ELSE 2295 * TENTH
TotalGrid(sp) == {AvgTotalOf(sp) + k * PT : k \in -MaxTotalDev..MaxTotalDev}
PriceGrid == {None, Some(-300), Some(-150), Some(-110), Some(120), Some(250)}
OddsGrid == {None, Some([best_odds |-> None])}
            \cup {Some([best_odds |-> Some([away_ml |-> a, home_ml |-> h])]) :
                    a \in PriceGrid, h \in PriceGrid}

NoCall == [fn |-> "none"]

SpreadInputs(sp) ==
    [predicted_spread : PredGrid, actual_spread : LineGrid,
     four_factors_edge : {Some(f) : f \in FFGrid}
                         \cup (IF sp = "NBA" THEN {None} ELSE {}),
     situational_adj : SitGrid,
     signal : IF sp = "NBA" THEN SignalGrid ELSE {0},
     spread_movement : IF sp = "NBA" THEN MovementGrid ELSE {0}]

TotalInputs(sp) ==
    [predicted_total : TotalGrid(sp),
     actual_total : {None} \cup {Some(t) : t \in TotalGrid(sp)}]

MoneylineInputs(sp) ==
    IF sp = "NCAA"
    THEN [predicted_spread : PredGrid \cup {6 * PT, -6 * PT}, odds : OddsGrid,
          away_ml : {None}, home_ml : {None}]
    ELSE [predicted_spread : PredGrid \cup {6 * PT, -6 * PT}, odds : {None},
          away_ml : PriceGrid, home_ml : PriceGrid]

(***************************************************************************)
(* SpecValue: the three valuation functions called on bounded inputs.      *)
(* call holds the latest call, prev the call it re-evaluates (NoCall when  *)
(* the call is a fresh one).  A run makes one fresh call and may then      *)
(* value the same game again with raised adjustments.                      *)
(***************************************************************************)
NoPicksFile == [picks |-> << >>, locked_dates |-> << >>]

NoTrackerOp == [op |-> "none"]

\* load_line_history when today's file does not exist yet
NoLineHistory == [games |-> << >>, snapshots |-> << >>]

IdleTracker ==
    /\ picks_file = NoPicksFile /\ today = 1 /\ tracker_op = NoTrackerOp
    /\ line_history = NoLineHistory

UnchangedTracker == UNCHANGED <<picks_file, today, tracker_op, line_history>>

IdleRun ==
    /\ games = << >> /\ idx = 0 /\ analyses = << >>
    /\ spread_picks = << >> /\ totals_picks = << >> /\ moneyline_picks = << >>
    /\ avoid_games = << >> /\ all_ranked = << >> /\ cfg_bound = FALSE
    /\ IdleTracker

UnchangedRun ==
    /\ UNCHANGED <<games, idx, analyses, spread_picks, totals_picks,
                   moneyline_picks, avoid_games, all_ranked, cfg_bound>>
    /\ UnchangedTracker

NoTeam == [injuries |-> << >>, bench_ppg |-> None, starters_ppg |-> None]

InitValue ==
    /\ sport \in Sports
    /\ pc = "value"
    /\ IdleRun
    /\ team = NoTeam
    /\ call = NoCall
    /\ prev = NoCall

CallSpreadValue ==
    /\ pc = "value"
    /\ call = NoCall
    /\ \E in \in SpreadInputs(sport) :
          call' = [fn |-> "spread", in |-> in, out |-> SpreadValueOf(sport, in)]
    /\ prev' = NoCall
    /\ UNCHANGED <<sport, pc, team>> /\ UnchangedRun

\* the same game valued again with a larger situational total or a larger
\* Four-Factors edge, base projection and market line unchanged
RaiseAdjustment ==
    /\ pc = "value"
    /\ call.fn = "spread"
    /\ ~IsNone(call.in.four_factors_edge)
    /\ \E s \in SitGrid, f \in FFGrid :
          LET in == [call.in EXCEPT !.situational_adj = s,
                                    !.four_factors_edge = Some(f)]
          IN  /\ s >= call.in.situational_adj
              /\ f >= Val(call.in.four_factors_edge)
              /\ in # call.in
              /\ call' = [fn |-> "spread", in |-> in,
                          out |-> SpreadValueOf(sport, in)]
    /\ prev' = call
    /\ UNCHANGED <<sport, pc, team>> /\ UnchangedRun

CallTotalValue ==
    /\ pc = "value"
    /\ call = NoCall
    /\ \E in \in TotalInputs(sport) :
          call' = [fn |-> "total", in |-> in, out |-> TotalValueOf(sport, in)]
    /\ prev' = NoCall
    /\ UNCHANGED <<sport, pc, team>> /\ UnchangedRun

CallMoneylineValue ==
    /\ pc = "value"
    /\ call = NoCall
    /\ \E in \in MoneylineInputs(sport) :
          call' = [fn |-> "moneyline", in |-> in,
                   out |-> MoneylineValueOf(sport, in)]
    /\ prev' = NoCall
    /\ UNCHANGED <<sport, pc, team>> /\ UnchangedRun

NextValue ==
    \/ CallSpreadValue
    \/ RaiseAdjustment
    \/ CallTotalValue
    \/ CallMoneylineValue

SpecValue == InitValue /\ [][NextValue]_vars

(***************************************************************************)
(* Claims on the valuation functions (checked under SpecValue)             *)
(***************************************************************************)
\* the spread edge before rounding, as the valuation computes it
ExactSpreadEdge(sp, in) ==
    IF sp = "NCAA"
    THEN Val(in.actual_spread)
         - (in.predicted_spread + Val(in.four_factors_edge) + in.situational_adj)
    ELSE NBA_adjusted_spread(in.predicted_spread, in.situational_adj,
                             in.four_factors_edge, in.signal,
                             in.spread_movement, in.actual_spread)
         + Val(in.actual_spread)

\* the smallest edge magnitude the class treats as a pick threshold
MinPickThreshold(sp) == IF sp = "NCAA" THEN 3 * PT ELSE 1 * PT

IsRaisedRevaluation ==
    /\ call.fn = "spread" /\ prev.fn = "spread"
    /\ call.in.predicted_spread = prev.in.predicted_spread
    /\ call.in.actual_spread = prev.in.actual_spread
    /\ call.in.situational_adj >= prev.in.situational_adj
    /\ Val(call.in.four_factors_edge) >= Val(prev.in.four_factors_edge)

\* C2: positive favors the away team: with the base projection and the
\* market line fixed, raising the situational total or the Four-Factors edge
\* never lowers the away-side spread edge (value_points) and never moves the
\* spread pick from AWAY towards HOME.
C2_RaiseNeverLowersAwayEdge ==
    IsRaisedRevaluation =>
        /\ call.out.value_points >= prev.out.value_points
        /\ ~(prev.out.pick_team = "AWAY" /\ call.out.pick_team # "AWAY")
        /\ ~(prev.out.pick_team = "PASS" /\ call.out.pick_team = "HOME")

\* C4: calculate_spread_value returns a side other than PASS when the spread
\* edge equals the minimum pick threshold in either direction, and PASS when
\* the edge magnitude is one point below it.
C4_PickAtThreshold ==
    (call.fn = "spread" /\ ~IsNone(call.in.actual_spread)) =>
        LET edge == Abs(ExactSpreadEdge(sport, call.in))
        IN  /\ edge = MinPickThreshold(sport) => call.out.pick_team # "PASS"
            /\ edge = MinPickThreshold(sport) - PT => call.out.pick_team = "PASS"

\* C5: every spread or total assessment whose pick side is PASS or NO_LINE
\* carries a star count of 0.
C5_PassHasNoStars ==
    /\ call.fn = "spread" =>
          (call.out.pick_team \in {"PASS", "NO_LINE"} => call.out.confidence_stars = 0)
    /\ call.fn = "total" =>
          (call.out.pick \in {"PASS", "NO_LINE"} => call.out.confidence_stars = 0)

\* the market line of the latest call is missing
LineMissing ==
    \/ call.fn = "spread" /\ IsNone(call.in.actual_spread)
    \/ call.fn = "total" /\ IsNone(call.in.actual_total)
    \/ /\ call.fn = "moneyline" /\ sport = "NCAA"
       /\ \/ IsNone(call.in.odds)
          \/ IsNone(Val(call.in.odds).best_odds)
          \/ IsNone(Val(Val(call.in.odds).best_odds).away_ml)
          \/ IsNone(Val(Val(call.in.odds).best_odds).home_ml)
    \/ /\ call.fn = "moneyline" /\ sport = "NBA"
       /\ (IsNone(call.in.away_ml) \/ IsNone(call.in.home_ml))

PickSideOf(c) ==
    IF c.fn = "spread" THEN c.out.pick_team
    ELSE IF c.fn = "total" THEN c.out.pick
    ELSE c.out.ml_pick

\* C6: when the market line is missing, each of the three valuation
\* functions returns a result whose pick side is NO_LINE.
C6_MissingLineIsNoLine ==
    LineMissing => PickSideOf(call) = "NO_LINE"

(***************************************************************************)
(* Injury impact                                                           *)
(* An injury report entry is [status, ppg, usage_rate, minutes, position]; *)
(* ppg and minutes in whole units, usage_rate in percent.                  *)
(***************************************************************************)
\* NBA: probability-of-missing factor in thousandths; -1 = entry skipped
NBA_status_factor(status) ==
    IF status = "Out" THEN 1000
    ELSE IF status = "Doubtful" THEN 800
    ELSE IF status = "Questionable" THEN 400
    ELSE IF status = "Probable" THEN 100
    ELSE -1

\* nba_config.INJURY_TIERS in the order the loop walks them
NBA_INJURY_TIERS == <<
    [tier |-> "superstar", ppg_min |-> 26, usage_min |-> 30, impact |-> -35 * TENTH],
    [tier |-> "allstar", ppg_min |-> 20, usage_min |-> 25, impact |-> -25 * TENTH],
    [tier |-> "quality_starter", ppg_min |-> 15, usage_min |-> 20, impact |-> -15 * TENTH],
    [tier |-> "starter", ppg_min |-> 10, usage_min |-> 15, impact |-> -75 * (TENTH \div 10)],
    [tier |-> "rotation", ppg_min |-> 5, usage_min |-> 10, impact |-> -4 * TENTH],
    [tier |-> "bench", ppg_min |-> 0, usage_min |-> 0, impact |-> -1 * TENTH] >>

RECURSIVE NBA_tier_impact(_, _, _)
NBA_tier_impact(ppg, usage, k) ==
    IF k > Len(NBA_INJURY_TIERS) THEN NBA_INJURY_TIERS[Len(NBA_INJURY_TIERS)].impact
    ELSE IF ppg >= NBA_INJURY_TIERS[k].ppg_min /\ usage >= NBA_INJURY_TIERS[k].usage_min
         THEN NBA_INJURY_TIERS[k].impact
         ELSE NBA_tier_impact(ppg, usage, k + 1)

\* the loop over the injuries: [total, starters_out] after entries k..Len
RECURSIVE NBA_injury_loop(_, _, _)
NBA_injury_loop(injuries, k, acc) ==
    IF k > Len(injuries) THEN acc
    ELSE LET inj == injuries[k]
             usage == IF inj.usage_rate = 0 THEN 10 ELSE inj.usage_rate
             status_factor == NBA_status_factor(inj.status)
             adjusted_impact ==
                 (NBA_tier_impact(inj.ppg, usage, 1) * status_factor) \div 1000
             counted == /\ status_factor # -1
                        /\ adjusted_impact # 0
                        /\ (inj.ppg >= 5 \/ inj.minutes >= 15)
         IN  NBA_injury_loop(injuries, k + 1,
                 IF counted
                 THEN [total |-> acc.total + adjusted_impact,
                       starters_out |-> acc.starters_out
                                        + (IF inj.ppg >= 10 THEN 1 ELSE 0)]
                 ELSE acc)

NBA_multiple_starters_out == -1 * PT
NBA_LEAGUE_AVG_BENCH_RATIO == 320      \* thousandths
NBA_DEPTH_FACTOR_MAX == 300            \* thousandths
NBA_INJURY_CAP == -6 * PT

\* the share of the injury impact a deep bench absorbs, in thousandths
NBA_depth_reduction(t) ==
    IF IsNone(t.bench_ppg) \/ IsNone(t.starters_ppg) THEN 0
    ELSE IF Val(t.bench_ppg) = 0 \/ Val(t.starters_ppg) = 0 THEN 0
    ELSE IF Val(t.bench_ppg) + Val(t.starters_ppg) <= 0 THEN 0
    ELSE LET depth_ratio == (Val(t.bench_ppg) * 1000)
                            \div (Val(t.bench_ppg) + Val(t.starters_ppg))
             depth_advantage == Max(0, depth_ratio - NBA_LEAGUE_AVG_BENCH_RATIO)
         IN  (Min((depth_advantage * 1000) \div NBA_LEAGUE_AVG_BENCH_RATIO, 1000)
              * NBA_DEPTH_FACTOR_MAX) \div 1000

NBA_calculate_injury_impact(t) ==
    IF t.injuries = << >> THEN 0
    ELSE LET acc == NBA_injury_loop(t.injuries, 1, [total |-> 0, starters_out |-> 0])
             extra == IF acc.starters_out >= 3 THEN (NBA_multiple_starters_out * 125) \div 100
                      ELSE IF acc.starters_out >= 2 THEN NBA_multiple_starters_out
                      ELSE 0
             with_extra == acc.total + extra
             reduction == NBA_depth_reduction(t)
             absorbed == IF reduction > 0 /\ with_extra < 0
                         THEN (with_extra * (1000 - reduction)) \div 1000
                         ELSE with_extra
         IN  Round1(Max(absorbed, NBA_INJURY_CAP))

\* NCAA: the per-player function nested in calculate_situational_adjustments
NCAA_calculate_injury_impact(inj) ==
    IF inj.status \notin {"Out", "Doubtful"} THEN 0
    ELSE LET has_G == inj.position \in {"PG", "SG", "G"}
             has_F_or_C == inj.position \in {"F", "C", "PF", "SF"}
             base_adj ==
                 IF inj.ppg >= 15 THEN -40 * TENTH
                 ELSE IF inj.ppg >= 10 THEN -25 * TENTH
                 ELSE IF inj.ppg >= 5 THEN -15 * TENTH
                 ELSE IF has_G THEN -25 * TENTH
                 ELSE IF has_F_or_C THEN -20 * TENTH
                 ELSE -15 * TENTH
         IN  IF inj.position \in {"PG", "G"} THEN (base_adj * 12) \div 10
             ELSE base_adj

\* NCAA: what the loop over one team's injuries adds up (the away loop adds
\* it to total_adj, the home loop subtracts it)
RECURSIVE NCAA_team_injury_total(_, _)
NCAA_team_injury_total(injuries, k) ==
    IF k > Len(injuries) THEN 0
    ELSE NCAA_calculate_injury_impact(injuries[k])
         + NCAA_team_injury_total(injuries, k + 1)

InjuryImpactOf(sp, t) ==
    IF sp = "NCAA" THEN NCAA_team_injury_total(t.injuries, 1)
    ELSE NBA_calculate_injury_impact(t)

(***************************************************************************)
(* SpecInjury: a team's injury report grows entry by entry, and the        *)
(* analyzer computes the team's aggregate injury adjustment from it.       *)
(***************************************************************************)
MaxInjuries == 2    \* entries of one team's injury report

InjuryGrid ==
    [status : {"Out", "Questionable", "Healthy"},
     ppg : {3, 12, 27},
     usage_rate : {0, 31},
     minutes : {10, 30},
     position : {"PG", "F"}]

\* bench 48 / starters 52 points: a bench deeper than the league average
DepthGrid ==
    {[bench_ppg |-> None, starters_ppg |-> None],
     [bench_ppg |-> Some(48), starters_ppg |-> Some(52)]}

InitInjury ==
    /\ sport \in Sports
    /\ pc = "injury"
    /\ IdleRun
    /\ \E d \in DepthGrid :
          team = [injuries |-> << >>, bench_ppg |-> d.bench_ppg,
                  starters_ppg |-> d.starters_ppg]
    /\ call = NoCall
    /\ prev = NoCall

\* the scraper lists one more injured player for the team
ReportInjury ==
    /\ pc = "injury"
    /\ Len(team.injuries) < MaxInjuries
    /\ \E inj \in InjuryGrid :
          team' = [team EXCEPT !.injuries = Append(@, inj)]
    /\ call' = NoCall
    /\ UNCHANGED <<sport, pc, prev>> /\ UnchangedRun

CalcInjuryImpact ==
    /\ pc = "injury"
    /\ call = NoCall
    /\ call' = [fn |-> "injury", in |-> team, out |-> InjuryImpactOf(sport, team)]
    /\ UNCHANGED <<sport, pc, prev, team>> /\ UnchangedRun

NextInjury ==
    \/ ReportInjury
    \/ CalcInjuryImpact

SpecInjury == InitInjury /\ [][NextInjury]_vars

\* C7: the aggregate injury adjustment computed for one team is never more
\* negative than the floor cap of -6 points.
C7_InjuryFloorCap ==
    call.fn = "injury" => call.out >= -6 * PT

(***************************************************************************)
(* Teams and games of a run                                                *)
(* A team's entry of the data file: adj_em in PT units, tier 1..4, record  *)
(* as wins and losses.  known = FALSE stands for the empty dict            *)
(* get_team_data returns for a name it cannot resolve; its other fields    *)
(* then hold the defaults the code's .get calls fall back to.              *)
(***************************************************************************)
TeamA == [name |-> "A", known |-> TRUE, adj_em |-> 11 * PT, tier |-> 1,
          wins |-> 20, losses |-> 5, conference |-> "ACC",
          streak |-> 0, last_10_wins |-> 5, data_sources |-> {"nba_api"}]
TeamB == [name |-> "B", known |-> TRUE, adj_em |-> 2 * PT, tier |-> 1,
          wins |-> 15, losses |-> 10, conference |-> "ACC",
          streak |-> 0, last_10_wins |-> 5, data_sources |-> {"nba_api"}]
TeamC == [name |-> "C", known |-> TRUE, adj_em |-> -8 * PT, tier |-> 2,
          wins |-> 10, losses |-> 14, conference |-> "SWAC",
          streak |-> 0, last_10_wins |-> 5, data_sources |-> {"nba_api"}]
TeamD == [name |-> "D", known |-> TRUE, adj_em |-> 2 * PT, tier |-> 1,
          wins |-> 8, losses |-> 14, conference |-> "ACC",
          streak |-> 0, last_10_wins |-> 5, data_sources |-> {"nba_api"}]
UnknownTeam(n) ==
    [name |-> n, known |-> FALSE, adj_em |-> 0, tier |-> 4,
     wins |-> 0, losses |-> 0, conference |-> "",
     streak |-> 0, last_10_wins |-> 5, data_sources |-> {}]

\* parse_record: win_pct in thousandths
parse_record(wins, losses) ==
    IF wins + losses > 0 THEN (wins * 1000) \div (wins + losses) ELSE 500

NCAA_WEAK_CONFERENCES ==
    {"SWAC", "MEAC", "Southland", "Big South", "A-Sun", "WAC", "Summit"}

NCAA_assess_team_quality(team_data) ==
    LET win_pct == parse_record(team_data.wins, team_data.losses)
    IN  [win_pct |-> win_pct,
         adj_em |-> team_data.adj_em,
         is_weak_conference |-> team_data.conference \in NCAA_WEAK_CONFERENCES,
         is_losing_team |-> win_pct < 400,
         is_very_bad |-> win_pct < 300 \/ team_data.adj_em < -10 * PT,
         is_cold |-> team_data.streak <= -4 \/ team_data.last_10_wins <= 2]

\* the odds dict NCAA analyze_game hands to calculate_moneyline_value
NCAA_odds_data(g) ==
    IF IsNone(g.spread) /\ IsNone(g.total) /\ IsNone(g.away_ml) /\ IsNone(g.home_ml)
    THEN None
    ELSE Some([best_odds |->
                 IF IsNone(g.away_ml) /\ IsNone(g.home_ml) THEN None
                 ELSE Some([away_ml |-> g.away_ml, home_ml |-> g.home_ml])])

\* game['away']['name'] of a game whose 'away' entry has no name: KeyError
GameRaises(g) == g.malformed

\* NCAAAnalyzer.analyze_game for a game that does not raise.  The result has
\* the keys away_data / home_data / away_quality / home_quality and no key
\* 'away' or 'home'.
NCAA_analyze_game(g) ==
    IF ~g.away.known /\ ~g.home.known
    THEN [error |-> TRUE, away_name |-> g.away.name, home_name |-> g.home.name]
    ELSE LET spread_value ==
                 NCAA_calculate_spread_value(g.predicted_spread, g.spread,
                                             Val(g.four_factors_edge),
                                             g.situational_adj)
         IN  [error |-> FALSE,
              away_name |-> g.away.name, home_name |-> g.home.name,
              away_data |-> g.away, home_data |-> g.home,
              away_quality |-> NCAA_assess_team_quality(g.away),
              home_quality |-> NCAA_assess_team_quality(g.home),
              actual_spread |-> g.spread, actual_total |-> g.total,
              expected |-> [predicted_spread |-> g.predicted_spread,
                            predicted_total |-> g.predicted_total],
              four_factors |-> g.four_factors_edge,
              spread_value |-> spread_value,
              total_value |-> NCAA_calculate_total_value(g.predicted_total, g.total),
              ml_value |-> NCAA_calculate_moneyline_value(
                               Val(spread_value.final_predicted),
                               NCAA_odds_data(g))]

\* NBAAnalyzer.analyze_game for a game that does not raise
NBA_analyze_game(g) ==
    LET adjusted_spread ==
            NBA_adjusted_spread(g.predicted_spread, g.situational_adj,
                                g.four_factors_edge, 0, 0, g.spread)
    IN  [error |-> FALSE,
         away_name |-> g.away.name, home_name |-> g.home.name,
         away_data |-> g.away, home_data |-> g.home,
         expected |-> [predicted_spread |-> Round1(adjusted_spread),
                       predicted_total |-> Round1(g.predicted_total)],
         four_factors |-> g.four_factors_edge,
         spread_value |-> NBA_calculate_spread_value(adjusted_spread, g.spread),
         total_value |-> NBA_calculate_total_value(g.predicted_total, g.total),
         ml_value |-> NBA_calculate_moneyline_value(adjusted_spread,
                                                    g.away_ml, g.home_ml)]

\* what analyze_all_games appends for a game that raised (NBA only)
NBA_error_analysis(g) == [error |-> TRUE, game |-> <<g.away.name, g.home.name>>]

(***************************************************************************)
(* NCAAAnalyzer.generate_report: one pass of the loop that collects the    *)
(* picks.  st = [moneyline_picks, spread_picks, totals_picks, avoid_games, *)
(* cfg_bound, raised, continued] is threaded through the blocks of the     *)
(* loop body in the order of the code.                                     *)
(***************************************************************************)
EmptyDict == << >>
DictGet(d, k, default) == IF k \in DOMAIN d THEN d[k] ELSE default

NCAA_MIN_ADJEM_TO_BET == -5 * PT
NCAA_MIN_ADJEM_FOR_TOTALS == 0 * PT
NCAA_MAX_SPREAD_THRESHOLD == 22 * PT
NCAA_LARGE_SPREAD_THRESHOLD == 15 * PT
NCAA_LARGE_SPREAD_EXTRA_EDGE == 2 * PT

\* analysis.get(side, {}).get('adj_em', 0): side is 'away' or 'home'
NCAA_side_adj_em(analysis, side) ==
    DictGet(DictGet(analysis, side, EmptyDict), "adj_em", 0)

NCAA_confidence(margin) ==
    IF margin >= 10 * PT THEN "HIGH"
    ELSE IF margin >= 5 * PT THEN "MEDIUM" ELSE "LOW"

\* predicted winner and confidence from spread_value['final_predicted']
NCAA_winner(an) ==
    LET predicted_spread == Val(an.spread_value.final_predicted)
    IN  IF predicted_spread < -15 * TENTH
        THEN [side |-> "away", winner |-> an.away_name, loser |-> an.home_name,
              margin |-> Abs(predicted_spread), winner_ml |-> an.ml_value.away_ml,
              confidence |-> NCAA_confidence(Abs(predicted_spread))]
        ELSE IF predicted_spread > 15 * TENTH
        THEN [side |-> "home", winner |-> an.home_name, loser |-> an.away_name,
              margin |-> predicted_spread, winner_ml |-> an.ml_value.home_ml,
              confidence |-> NCAA_confidence(predicted_spread)]
        ELSE [side |-> "home", winner |-> an.home_name, loser |-> an.away_name,
              margin |-> Abs(predicted_spread), winner_ml |-> an.ml_value.home_ml,
              confidence |-> "TOSS-UP"]

GameOf(an) == <<an.away_name, an.home_name>>

Avoid(st, an, reason) ==
    [st EXCEPT !.avoid_games = Append(@, [game |-> GameOf(an), reason |-> reason])]

\* reading the function-local name MIN_ADJEM_TO_BET before the import
\* statement of the spread block has run raises UnboundLocalError
ReadMinAdjem(st) == IF st.cfg_bound THEN st ELSE [st EXCEPT !.raised = TRUE]

\* lines 1267-1279
NCAA_avoid_no_value(an, st) ==
    LET w == NCAA_winner(an)
        spread_val == Abs(an.spread_value.value_points)
    IN  IF w.confidence = "TOSS-UP" /\ spread_val < 3 * PT
        THEN Avoid(st, an, "Model shows toss-up, no spread value")
        ELSE IF w.confidence = "LOW" /\ spread_val < 3 * PT
        THEN Avoid(st, an, "Low confidence, no spread value")
        ELSE st

NCAA_ml_pick_side(an) ==
    IF an.ml_value.ml_pick = "AWAY_ML" THEN "away"
    ELSE IF an.ml_value.ml_pick = "HOME_ML" THEN "home" ELSE "none"

NCAA_ml_pick_team(an) ==
    IF NCAA_ml_pick_side(an) = "away" THEN an.away_name
    ELSE IF NCAA_ml_pick_side(an) = "home" THEN an.home_name ELSE "None"

NCAA_ml_pick_price(an) ==
    IF NCAA_ml_pick_side(an) = "away" THEN an.ml_value.away_ml
    ELSE IF NCAA_ml_pick_side(an) = "home" THEN an.ml_value.home_ml ELSE None

\* lines 1301-1319: confident winner picks
NCAA_collect_ml_winner(an, st) ==
    LET w == NCAA_winner(an)
        winner_adjem == NCAA_side_adj_em(an, w.side)
        takes == NCAA_ml_pick_team(an) = w.winner
    IN  IF st.raised THEN st
        ELSE IF /\ ~IsNone(w.winner_ml)
                /\ Val(w.winner_ml) > -500
                /\ w.confidence \in {"HIGH", "MEDIUM"}
        THEN LET r == ReadMinAdjem(st)
             IN  IF r.raised THEN r
                 ELSE IF winner_adjem >= NCAA_MIN_ADJEM_TO_BET
                 THEN [r EXCEPT !.moneyline_picks = Append(@,
                          [team |-> w.winner, opponent |-> w.loser,
                           game |-> GameOf(an),
                           confidence |-> w.confidence, margin |-> w.margin,
                           edge |-> IF takes THEN an.ml_value.ml_value ELSE 0,
                           stars |-> IF takes THEN an.ml_value.ml_stars ELSE 0,
                           is_underdog |-> FALSE, price |-> Val(w.winner_ml)])]
                 ELSE r
        ELSE st

\* lines 1325-1377: high-value underdog moneyline
NCAA_collect_ml_underdog(an, st) ==
    LET side == NCAA_ml_pick_side(an)
        ml_pick_team == NCAA_ml_pick_team(an)
        price == NCAA_ml_pick_price(an)
        pick_quality == IF side = "away" THEN an.away_quality ELSE an.home_quality
        ml_pick_adjem == NCAA_side_adj_em(an, side)
        already_added == \E k \in DOMAIN st.moneyline_picks :
                             st.moneyline_picks[k].team = ml_pick_team
    IN  IF st.raised THEN st
        ELSE IF an.ml_value.ml_stars >= 3 /\ side # "none" /\ ~IsNone(price)
                /\ Val(price) > 100
        THEN LET r == ReadMinAdjem(st)
             IN  IF r.raised THEN r
                 ELSE IF ml_pick_adjem < NCAA_MIN_ADJEM_TO_BET
                 THEN Avoid(r, an, "Model liked ML but AdjEM too low")
                 ELSE IF pick_quality.win_pct < 400
                 THEN Avoid(r, an, "Model liked ML but win% too low")
                 ELSE IF pick_quality.is_very_bad
                 THEN Avoid(r, an, "Model liked ML but team quality too low")
                 ELSE IF pick_quality.is_cold /\ Val(price) > 200
                 THEN Avoid(r, an, "Model liked ML but team is cold")
                 ELSE IF ~already_added
                 THEN [r EXCEPT !.moneyline_picks = Append(@,
                          [team |-> ml_pick_team,
                           opponent |-> IF side = "away" THEN an.home_name
                                        ELSE an.away_name,
                           game |-> GameOf(an),
                           confidence |-> "VALUE", margin |-> 0,
                           edge |-> an.ml_value.ml_value,
                           stars |-> an.ml_value.ml_stars,
                           is_underdog |-> TRUE, price |-> Val(price)])]
                 ELSE r
        ELSE st

\* lines 1383-1474: spread picks.  The block starts with the import that
\* binds the thresholds; each rejection ends the pass with continue, which
\* also skips the totals block of the same game.
NCAA_collect_spread(an, st) ==
    LET sv == an.spread_value
        side == IF sv.pick_team = "AWAY" THEN "away" ELSE "home"
        pick_team == IF side = "away" THEN an.away_name ELSE an.home_name
        opp_team == IF side = "away" THEN an.home_name ELSE an.away_name
        spread == IF side = "away" THEN Val(sv.actual_spread)
                  ELSE -Val(sv.actual_spread)
        edge == Abs(sv.value_points)
        stars == sv.confidence_stars
        pick_adjem == NCAA_side_adj_em(an, side)
        pick_quality == IF side = "away" THEN an.away_quality ELSE an.home_quality
        adjusted_stars ==
            IF pick_quality.is_losing_team /\ pick_quality.is_weak_conference
            THEN Max(1, stars - 2)
            ELSE IF pick_quality.is_losing_team THEN Max(1, stars - 1)
            ELSE IF pick_quality.is_weak_conference /\ pick_quality.win_pct < 450
            THEN Max(1, stars - 1)
            ELSE stars
        b == [st EXCEPT !.cfg_bound = TRUE]
        rejected(reason) == [Avoid(b, an, reason) EXCEPT !.continued = TRUE]
    IN  IF st.raised THEN st
        ELSE IF sv.pick_team \in {"PASS", "NO_LINE"} THEN st
        ELSE IF pick_adjem < NCAA_MIN_ADJEM_TO_BET
        THEN rejected("AdjEM too low")
        ELSE IF Abs(spread) > NCAA_MAX_SPREAD_THRESHOLD
        THEN rejected("Spread too large - blowout risk")
        ELSE IF /\ Abs(spread) > NCAA_LARGE_SPREAD_THRESHOLD
                /\ edge < 3 * PT + NCAA_LARGE_SPREAD_EXTRA_EDGE
        THEN rejected("Large spread needs more edge")
        ELSE IF pick_quality.is_very_bad
        THEN rejected("Model liked spread but team is very bad")
        ELSE IF adjusted_stars >= 3
        THEN [b EXCEPT !.spread_picks = Append(@,
                 [team |-> pick_team, opponent |-> opp_team, side |-> side,
                  game |-> GameOf(an), spread |-> spread, edge |-> edge,
                  stars |-> adjusted_stars,
                  model_spread |-> Val(sv.final_predicted)])]
        ELSE b

\* lines 1479-1502: totals picks
NCAA_collect_totals(an, st) ==
    LET tv == an.total_value
        home_adjem == NCAA_side_adj_em(an, "home")
        away_adjem == NCAA_side_adj_em(an, "away")
        best_adjem == Max(home_adjem, away_adjem)
    IN  IF st.raised \/ st.continued THEN st
        ELSE IF tv.pick \in {"PASS", "NO_LINE"} THEN st
        ELSE IF best_adjem < NCAA_MIN_ADJEM_FOR_TOTALS THEN st
        ELSE IF tv.confidence_stars >= 3
        THEN [st EXCEPT !.totals_picks = Append(@,
                 [pick |-> tv.pick, game |-> GameOf(an),
                  actual_total |-> Val(tv.actual_total),
                  predicted |-> Val(tv.predicted_total),
                  edge |-> Abs(tv.value_points),
                  stars |-> tv.confidence_stars])]
        ELSE st

\* the body of the loop "for analysis in analyses" (lines 1235-1502)
NCAA_collect(an, st) ==
    IF an.error THEN st
    ELSE NCAA_collect_totals(an,
           NCAA_collect_spread(an,
             NCAA_collect_ml_underdog(an,
               NCAA_collect_ml_winner(an,
                 NCAA_avoid_no_value(an, st)))))

(***************************************************************************)
(* NBAAnalyzer.generate_report                                             *)
(***************************************************************************)
NBA_TIER_CONFIDENCE == <<100, 85, 70, 55>>                      \* hundredths
NBA_SPREAD_EDGE_BY_TIER == <<15 * TENTH, 20 * TENTH, 25 * TENTH, 35 * TENTH>>
NBA_TOTAL_EDGE_BY_TIER == <<4 * PT, 5 * PT, 6 * PT, 7 * PT>>
NBA_MAX_FAVORITE_ODDS == -400
NBA_MAX_UNDERDOG_ODDS == 350
NBA_MAX_SPREAD_THRESHOLD == 15 * PT
NBA_LARGE_SPREAD_THRESHOLD == 10 * PT
NBA_LARGE_SPREAD_EXTRA_EDGE == 2 * PT

\* worst tier of the two teams
NBA_get_game_tier(away_data, home_data) == Max(away_data.tier, home_data.tier)

\* score 0-100 (PT units) of the confidence in a projection
NBA_calculate_pick_confidence(an) ==
    LET best_tier == Min(an.away_data.tier, an.home_data.tier)
        tier_part == ((NBA_TIER_CONFIDENCE[best_tier] - 50) * 40 * PT) \div 100
        data_part ==
            IF "nba_api" \in an.away_data.data_sources
               /\ "nba_api" \in an.home_data.data_sources THEN 10 * PT
            ELSE IF "espn" \in an.away_data.data_sources
                    /\ "espn" \in an.home_data.data_sources THEN 5 * PT
            ELSE 0
        gap == Abs(an.away_data.adj_em - an.home_data.adj_em)
        gap_part == IF gap >= 12 * PT THEN 8 * PT
                    ELSE IF gap >= 8 * PT THEN 5 * PT
                    ELSE IF gap >= 4 * PT THEN 2 * PT
                    ELSE IF gap < 2 * PT THEN -5 * PT
                    ELSE 0
        ff_edge == IF IsNone(an.four_factors) THEN 0 ELSE Val(an.four_factors)
        spread == an.expected.predicted_spread
        ff_part ==
            IF (ff_edge < 0 /\ spread < 0) \/ (ff_edge > 0 /\ spread > 0)
            THEN 5 * PT
            ELSE IF /\ Abs(ff_edge) > 2 * PT
                    /\ \/ (ff_edge < 0 /\ spread > 0)
                       \/ (ff_edge > 0 /\ spread < 0)
            THEN -5 * PT
            ELSE 0
        total_games == an.away_data.wins + an.away_data.losses
                       + an.home_data.wins + an.home_data.losses
        early_part == IF total_games < 40 THEN -5 * PT ELSE 0
    IN  Max(0, Min(100 * PT,
            Round1(50 * PT + tier_part + data_part + gap_part + ff_part
                   + early_part)))

NBA_winner(an) ==
    LET predicted_spread == an.expected.predicted_spread
    IN  IF predicted_spread > 15 * TENTH
        THEN [winner |-> an.away_name, loser |-> an.home_name,
              margin |-> Abs(predicted_spread), winner_ml |-> an.ml_value.away_ml]
        ELSE [winner |-> an.home_name, loser |-> an.away_name,
              margin |-> Abs(predicted_spread), winner_ml |-> an.ml_value.home_ml]

\* lines 1013-1030
NBA_collect_ml_winner(an, st) ==
    LET w == NBA_winner(an)
    IN  IF /\ ~IsNone(w.winner_ml)
           /\ w.margin >= 3 * PT
           /\ Val(w.winner_ml) >= NBA_MAX_FAVORITE_ODDS
           /\ (Val(w.winner_ml) <= NBA_MAX_UNDERDOG_ODDS \/ Val(w.winner_ml) < 0)
        THEN [st EXCEPT !.moneyline_picks = Append(@,
                 [team |-> w.winner, opponent |-> w.loser, game |-> GameOf(an),
                  margin |-> w.margin, is_underdog |-> Val(w.winner_ml) > 0,
                  is_upset |-> FALSE,
                  stars |-> an.ml_value.ml_stars, edge |-> an.ml_value.ml_value,
                  pick_confidence |-> NBA_calculate_pick_confidence(an),
                  tier |-> NBA_get_game_tier(an.away_data, an.home_data),
                  price |-> Val(w.winner_ml)])]
        ELSE st

\* lines 1032-1051
NBA_collect_ml_upset(an, st) ==
    LET ml_pick_type == an.ml_value.ml_pick
        away_picked == ml_pick_type = "AWAY_ML"
        pick_price == IF away_picked THEN an.ml_value.away_ml
                      ELSE an.ml_value.home_ml
    IN  IF /\ ml_pick_type # "None"
           /\ ~IsNone(pick_price)
           /\ Val(pick_price) > 0
           /\ Val(pick_price) <= NBA_MAX_UNDERDOG_ODDS
        THEN [st EXCEPT !.moneyline_picks = Append(@,
                 [team |-> IF away_picked THEN an.away_name ELSE an.home_name,
                  opponent |-> IF away_picked THEN an.home_name ELSE an.away_name,
                  game |-> GameOf(an),
                  margin |-> NBA_winner(an).margin, is_underdog |-> TRUE,
                  is_upset |-> TRUE,
                  stars |-> an.ml_value.ml_stars, edge |-> an.ml_value.ml_value,
                  pick_confidence |-> NBA_calculate_pick_confidence(an),
                  tier |-> NBA_get_game_tier(an.away_data, an.home_data),
                  price |-> Val(pick_price)])]
        ELSE st

\* lines 1053-1077; the continue of the large-spread test ends the pass
NBA_collect_spread(an, st) ==
    LET sv == an.spread_value
        side == IF sv.pick_team = "AWAY" THEN "away" ELSE "home"
        spread == IF side = "away" THEN Val(sv.actual_spread)
                  ELSE -Val(sv.actual_spread)
        edge == Abs(sv.value_points)
        game_tier == NBA_get_game_tier(an.away_data, an.home_data)
        min_edge == NBA_SPREAD_EDGE_BY_TIER[game_tier]
    IN  IF sv.pick_team \in {"PASS", "NO_LINE"} THEN st
        ELSE IF edge >= min_edge /\ Abs(spread) <= NBA_MAX_SPREAD_THRESHOLD
        THEN IF /\ Abs(spread) > NBA_LARGE_SPREAD_THRESHOLD
                /\ edge < min_edge + NBA_LARGE_SPREAD_EXTRA_EDGE
             THEN [st EXCEPT !.continued = TRUE]
             ELSE [st EXCEPT !.spread_picks = Append(@,
                      [team |-> IF side = "away" THEN an.away_name
                                ELSE an.home_name,
                       side |-> side, game |-> GameOf(an),
                       spread |-> spread, edge |-> edge,
                       stars |-> sv.confidence_stars,
                       model_spread |-> Val(sv.final_predicted),
                       pick_confidence |-> NBA_calculate_pick_confidence(an),
                       tier |-> game_tier])]
        ELSE st

\* lines 1079-1091
NBA_collect_totals(an, st) ==
    LET tv == an.total_value
        game_tier == NBA_get_game_tier(an.away_data, an.home_data)
    IN  IF st.continued THEN st
        ELSE IF tv.pick \in {"PASS", "NO_LINE"} THEN st
        ELSE IF Abs(tv.value_points) >= NBA_TOTAL_EDGE_BY_TIER[game_tier]
        THEN [st EXCEPT !.totals_picks = Append(@,
                 [pick |-> tv.pick, game |-> GameOf(an),
                  actual_total |-> Val(tv.actual_total),
                  predicted |-> Val(tv.predicted_total),
                  edge |-> Abs(tv.value_points),
                  stars |-> tv.confidence_stars,
                  pick_confidence |-> NBA_calculate_pick_confidence(an),
                  tier |-> game_tier])]
        ELSE st

\* the body of the loop "for analysis in analyses" (lines 963-1091)
NBA_collect(an, st) ==
    IF an.error THEN st
    ELSE NBA_collect_totals(an,
           NBA_collect_spread(an,
             NBA_collect_ml_upset(an,
               NBA_collect_ml_winner(an, st))))

\* NCAA key (-stars, -edge)
NCAA_pick_before(a, b) ==
    \/ a.stars > b.stars
    \/ (a.stars = b.stars /\ a.edge > b.edge)

\* NBA key (-confidence, tier, -edge)
NBA_rank_before(a, b) ==
    \/ a.confidence > b.confidence
    \/ (a.confidence = b.confidence /\ a.tier < b.tier)
    \/ (a.confidence = b.confidence /\ a.tier = b.tier /\ a.edge > b.edge)

\* a's sort key is smaller than b's, for the key of the named class
KeyBefore(key, a, b) ==
    IF key = "NCAA" THEN NCAA_pick_before(a, b) ELSE NBA_rank_before(a, b)

\* list.sort(key) as Python sorts: ascending in the key, equal keys keep
\* their order
StableSort(s, key) ==
    LET pos(i) == 1 + Cardinality({j \in DOMAIN s :
                          \/ KeyBefore(key, s[j], s[i])
                          \/ (~KeyBefore(key, s[i], s[j]) /\ j < i)})
    IN  [k \in DOMAIN s |-> s[CHOOSE i \in DOMAIN s : pos(i) = k]]

\* lines 1098-1118: the spread picks, then the upset moneyline picks, sorted
NBA_all_ranked(sp_picks, ml_picks) ==
    LET ranked(type, p) ==
            [type |-> type, team |-> p.team, game |-> p.game,
             confidence |-> p.pick_confidence, edge |-> p.edge,
             stars |-> p.stars, tier |-> p.tier]
        spreads == [k \in DOMAIN sp_picks |-> ranked("SPREAD", sp_picks[k])]
        upsets == SelectSeq(ml_picks, LAMBDA p : p.is_upset)
        ml == [k \in DOMAIN upsets |-> ranked("ML UPSET", upsets[k])]
    IN  StableSort(spreads \o ml, "NBA")

(***************************************************************************)
(* Spec: a run of the analyzer over the day's games: analyze_all_games,    *)
(* then generate_report on its result.                                     *)
(***************************************************************************)
MaxGames == 2       \* games of the day

GamePredGrid == {-6 * PT, 0, 6 * PT}
Matchups == {<<TeamA, TeamB>>, <<TeamC, TeamB>>, <<TeamD, TeamB>>}

\* the odds snapshot of a game: absent, or spread and total with or without
\* the two moneylines
MarketGrid(sp) ==
    {[spread |-> None, total |-> None, away_ml |-> None, home_ml |-> None]}
    \cup {[spread |-> Some(l), total |-> Some(AvgTotalOf(sp) - t),
           away_ml |-> m[1], home_ml |-> m[2]] :
             l \in {35 * TENTH, 95 * TENTH},
             t \in {8 * PT, 9 * PT},
             m \in {<<None, None>>, <<Some(130), Some(-150)>>}}

Game(malformed, away, home, predicted_spread, sp, market) ==
    [malformed |-> malformed, away |-> away, home |-> home,
     predicted_spread |-> predicted_spread,
     predicted_total |-> AvgTotalOf(sp),
     four_factors_edge |-> Some(0), situational_adj |-> 0,
     spread |-> market.spread, total |-> market.total,
     away_ml |-> market.away_ml, home_ml |-> market.home_ml]

NoMarket == [spread |-> None, total |-> None, away_ml |-> None, home_ml |-> None]

\* a game with a large market spread and a model spread a few points off
\* it: NCAA line +16.5 against a model spread of 13, NBA line +10.5 against
\* a model spread of -13; the total is 9 under the projection
LargeLineGame(sp) ==
    Game(FALSE, TeamA, TeamB, IF sp = "NCAA" THEN 13 * PT ELSE -13 * PT, sp,
         [spread |-> Some(IF sp = "NCAA" THEN 165 * TENTH ELSE 105 * TENTH),
          total |-> Some(AvgTotalOf(sp) - 9 * PT),
          away_ml |-> None, home_ml |-> None])

GameGrid(sp) ==
    {Game(FALSE, m[1], m[2], p, sp, mk) :
        m \in Matchups, p \in GamePredGrid, mk \in MarketGrid(sp)}
    \cup {Game(TRUE, TeamA, TeamB, 0, sp, NoMarket),
          Game(FALSE, UnknownTeam("X"), UnknownTeam("Y"), 0, sp, NoMarket),
          LargeLineGame(sp)}

GameLists(sp) == UNION {[1..n -> GameGrid(sp)] : n \in 1..MaxGames}

Init ==
    /\ sport \in Sports
    /\ games \in GameLists(sport)
    /\ idx = 0
    /\ analyses = << >>
    /\ pc = "analyze"
    /\ spread_picks = << >> /\ totals_picks = << >> /\ moneyline_picks = << >>
    /\ avoid_games = << >> /\ all_ranked = << >> /\ cfg_bound = FALSE
    /\ call = NoCall /\ prev = NoCall /\ team = NoTeam
    /\ IdleTracker

\* one pass of the loop of analyze_all_games.  NCAA calls analyze_game
\* bare, so an exception leaves the function; NBA catches it and appends an
\* error object.
AnalyzeGame ==
    /\ pc = "analyze"
    /\ idx < Len(games)
    /\ LET g == games[idx + 1]
       IN  IF GameRaises(g)
           THEN IF sport = "NCAA"
                THEN /\ pc' = "analysis_raised"
                     /\ UNCHANGED <<idx, analyses>>
                ELSE /\ analyses' = Append(analyses, NBA_error_analysis(g))
                     /\ idx' = idx + 1
                     /\ pc' = pc
           ELSE /\ analyses' = Append(analyses,
                                      IF sport = "NCAA" THEN NCAA_analyze_game(g)
                                      ELSE NBA_analyze_game(g))
                /\ idx' = idx + 1
                /\ pc' = pc
    /\ UNCHANGED <<sport, games, spread_picks, totals_picks, moneyline_picks,
                   avoid_games, all_ranked, cfg_bound, call, prev, team>>
    /\ UnchangedTracker

\* analyze_all_games returns and generate_report starts on its result
ReturnAnalyses ==
    /\ pc = "analyze"
    /\ idx = Len(games)
    /\ pc' = "report"
    /\ idx' = 0
    /\ UNCHANGED <<sport, games, analyses, spread_picks, totals_picks,
                   moneyline_picks, avoid_games, all_ranked, cfg_bound,
                   call, prev, team>>
    /\ UnchangedTracker

\* one pass of the loop of generate_report that collects the picks
CollectPicks ==
    /\ pc = "report"
    /\ idx < Len(analyses)
    /\ LET st == [moneyline_picks |-> moneyline_picks,
                  spread_picks |-> spread_picks,
                  totals_picks |-> totals_picks,
                  avoid_games |-> avoid_games,
                  cfg_bound |-> cfg_bound,
                  raised |-> FALSE, continued |-> FALSE]
           out == IF sport = "NCAA" THEN NCAA_collect(analyses[idx + 1], st)
                  ELSE NBA_collect(analyses[idx + 1], st)
       IN  /\ moneyline_picks' = out.moneyline_picks
           /\ spread_picks' = out.spread_picks
           /\ totals_picks' = out.totals_picks
           /\ avoid_games' = out.avoid_games
           /\ cfg_bound' = out.cfg_bound
           /\ pc' = IF out.raised THEN "report_raised" ELSE pc
    /\ idx' = idx + 1
    /\ UNCHANGED <<sport, games, analyses, all_ranked, call, prev, team>>
    /\ UnchangedTracker

\* after the loop: the lists are sorted for display
RankPicks ==
    /\ pc = "report"
    /\ idx = Len(analyses)
    /\ IF sport = "NCAA"
       THEN /\ spread_picks' = StableSort(spread_picks, "NCAA")
            /\ totals_picks' = StableSort(totals_picks, "NCAA")
            /\ UNCHANGED all_ranked
       ELSE /\ all_ranked' = NBA_all_ranked(spread_picks, moneyline_picks)
            /\ UNCHANGED <<spread_picks, totals_picks>>
    /\ pc' = "done"
    /\ UNCHANGED <<sport, games, idx, analyses, moneyline_picks, avoid_games,
                   cfg_bound, call, prev, team>>
    /\ UnchangedTracker

Next ==
    \/ AnalyzeGame
    \/ ReturnAnalyses
    \/ CollectPicks
    \/ RankPicks

Spec == Init /\ [][Next]_vars

(***************************************************************************)
(* Claims on a run (checked under Spec)                                    *)
(***************************************************************************)
\* analyze_all_games has returned
Returned == pc \in {"report", "report_raised", "done"}

\* C1: analyze_all_games returns exactly one result per game, in input
\* order; a game whose analysis fails yields an error object, and the rest
\* of the games are still analysed (a failure never ends the run).
C1_OneResultPerGame ==
    /\ pc # "analysis_raised"
    /\ Returned =>
          /\ Len(analyses) = Len(games)
          /\ \A k \in DOMAIN games :
                IF GameRaises(games[k]) THEN analyses[k].error
                ELSE /\ analyses[k].away_name = games[k].away.name
                     /\ analyses[k].home_name = games[k].home.name

KnownTeams == {TeamA, TeamB, TeamC, TeamD}
AdjEmOf(name) == (CHOOSE t \in KnownTeams : t.name = name).adj_em

\* C8: no spread pick is emitted on a team whose adj_em is below
\* MIN_ADJEM_TO_BET (-5.0).
C8_NoSpreadPickOnLowAdjEm ==
    sport = "NCAA" =>
        \A k \in DOMAIN spread_picks :
            AdjEmOf(spread_picks[k].team) >= NCAA_MIN_ADJEM_TO_BET

InAvoidList(an) == \E k \in DOMAIN avoid_games : avoid_games[k].game = GameOf(an)

SpreadCandidate(an) == an.spread_value.pick_team \notin {"PASS", "NO_LINE"}
TotalCandidate(an) == an.total_value.pick \notin {"PASS", "NO_LINE"}
MoneylineCandidate(an) == an.ml_value.ml_pick \in {"AWAY_ML", "HOME_ML"}

SpreadPicked(an) ==
    \E k \in DOMAIN spread_picks : spread_picks[k].game = GameOf(an)
TotalPicked(an) ==
    \E k \in DOMAIN totals_picks : totals_picks[k].game = GameOf(an)
MoneylinePicked(an) ==
    \E k \in DOMAIN moneyline_picks : moneyline_picks[k].game = GameOf(an)

\* C9: when the report is built, every candidate that was filtered out (a
\* spread, total or moneyline assessment that is neither PASS nor NO_LINE
\* and did not become a pick) has its game in the games-to-avoid list.
C9_FilteredCandidateIsAvoided ==
    pc = "done" =>
        \A k \in DOMAIN analyses :
            LET an == analyses[k]
            IN  ~an.error =>
                  /\ (SpreadCandidate(an) /\ ~SpreadPicked(an)) => InAvoidList(an)
                  /\ (TotalCandidate(an) /\ ~TotalPicked(an)) => InAvoidList(an)
                  /\ (MoneylineCandidate(an) /\ ~MoneylinePicked(an))
                        => InAvoidList(an)

\* the ranked list of the report: NBA all_ranked (confidence = pick
\* confidence), NCAA spread_picks (confidence = stars)
RankedList ==
    IF sport = "NBA" THEN all_ranked
    ELSE [k \in DOMAIN spread_picks |->
            [confidence |-> spread_picks[k].stars, edge |-> spread_picks[k].edge]]

\* C10: the ranked pick list is ordered by confidence descending, ties
\* broken by raw edge magnitude descending, no other key coming before the
\* edge.
C10_RankedByConfidenceThenEdge ==
    pc = "done" =>
        \A i, j \in DOMAIN RankedList :
            i < j =>
                \/ RankedList[i].confidence > RankedList[j].confidence
                \/ /\ RankedList[i].confidence = RankedList[j].confidence
                   /\ RankedList[i].edge >= RankedList[j].edge

(***************************************************************************)
(* calculate_expected_score: the projected spread of a matchup.            *)
(* Ratings and tempos are integers in tenths (110.3 is 1103).  A team's    *)
(* entry is a record of optional fields; the empty dict get_team_data      *)
(* returns for an unresolved name is EmptyDict.  The two projected scores  *)
(* enter the spread only through their difference, which the model forms   *)
(* directly: (ppp difference) * tempo / 100 plus or minus the home court   *)
(* advantage.  The projected total and the two scores are not modelled.    *)
(***************************************************************************)
Truthy(x) == ~IsNone(x) /\ Val(x) # 0

\* Python's "x or y" for an optional x and a plain y
OrElse(x, y) == IF Truthy(x) THEN Val(x) ELSE y

Get(t, k) == DictGet(t, k, None)

NCAA_AVG_TEMPO == 675               \* 67.5
NCAA_AVG_EFFICIENCY == 1000         \* 100.0
NCAA_EFFICIENCY_DEFLATOR == 70      \* 0.70, in hundredths
NCAA_HOME_COURT_ADVANTAGE == 375    \* 3.75, in hundredths of a point
\* one entry of the table of elite venues, in hundredths of a point
NCAA_ELITE_HOME_COURTS == [Duke |-> 600]

NCAA_get_home_court_advantage(home_team, neutral) ==
    IF neutral THEN 0
    ELSE DictGet(NCAA_ELITE_HOME_COURTS, home_team, NCAA_HOME_COURT_ADVANTAGE)

NCAA_adj_oe(t) ==
    OrElse(Get(t, "adj_oe"), OrElse(Get(t, "sr_off_rtg"), NCAA_AVG_EFFICIENCY))

\* a defensive rating of exactly 100.0 is taken for a placeholder and
\* replaced by round(points allowed per game / tempo * 100, 1)
NCAA_adj_de(t) ==
    LET de == OrElse(Get(t, "adj_de"),
                     OrElse(Get(t, "sr_def_rtg"), NCAA_AVG_EFFICIENCY))
    IN  IF de = 1000 /\ Truthy(Get(t, "pts_allowed_per_game"))
        THEN LET ppg_allowed == Val(Get(t, "pts_allowed_per_game"))
                 tempo == OrElse(Get(t, "adj_tempo"), NCAA_AVG_TEMPO)
             IN  RoundTo(ppg_allowed * 1000, tempo) \div tempo
        ELSE de

NCAA_tempo(t) ==
    OrElse(Get(t, "adj_tempo"), OrElse(Get(t, "sr_pace"), NCAA_AVG_TEMPO))

\* expected points per 100 possessions, deflated, in 1/1000
NCAA_matchup_ppp_mutant(oe, opp_de) ==
    NCAA_AVG_EFFICIENCY * 100
    + ((oe - (opp_de - NCAA_AVG_EFFICIENCY)) - NCAA_AVG_EFFICIENCY)
      * NCAA_EFFICIENCY_DEFLATOR

NCAA_matchup_ppp(oe, opp_de) ==
    NCAA_AVG_EFFICIENCY * 100
    + ((oe + (opp_de - NCAA_AVG_EFFICIENCY)) - NCAA_AVG_EFFICIENCY)
      * NCAA_EFFICIENCY_DEFLATOR

NCAA_hca_scale(adj_em_gap) ==
    IF adj_em_gap > 250 THEN 50
    ELSE IF adj_em_gap > 200 THEN 67
    ELSE IF adj_em_gap > 150 THEN 80
    ELSE 100

\* None when neither team is known; predicted_spread = home score minus
\* away score in PT units, rounded to 0.1
NCAA_calculate_expected_score(away, home, home_name, neutral) ==
    IF away = EmptyDict /\ home = EmptyDict THEN None
    ELSE
    LET away_adj_oe == NCAA_adj_oe(away)
        away_adj_de == NCAA_adj_de(away)
        home_adj_oe == NCAA_adj_oe(home)
        home_adj_de == NCAA_adj_de(home)
        away_tempo == NCAA_tempo(away)
        home_tempo == NCAA_tempo(home)
        \* expected_tempo in 1/200: (away + home) / 2 * 0.9 + AVG_TEMPO * 0.1
        expected_tempo == 9 * (away_tempo + home_tempo) + 2 * NCAA_AVG_TEMPO
        away_ppp == NCAA_matchup_ppp(away_adj_oe, home_adj_de)
        home_ppp == NCAA_matchup_ppp(home_adj_oe, away_adj_de)
        adj_em_gap == Abs((away_adj_oe - away_adj_de)
                          - (home_adj_oe - home_adj_de))
        base_hca == NCAA_get_home_court_advantage(home_name, neutral)
        hca == base_hca * NCAA_hca_scale(adj_em_gap)      \* PT units
        \* home_score - away_score in 1/20000000 point
        predicted_spread == (home_ppp - away_ppp) * expected_tempo + hca * 2000
    IN  Some([predicted_spread |-> RoundTo(predicted_spread, 2000000) \div 2000,
              expected_tempo |-> RoundTo(expected_tempo, 20) \div 20,
              home_court_adj |-> hca,
              away_adj_oe |-> away_adj_oe, away_adj_de |-> away_adj_de,
              home_adj_oe |-> home_adj_oe, home_adj_de |-> home_adj_de,
              away_tempo |-> away_tempo, home_tempo |-> home_tempo])

NBA_AVG_PACE == 1002                \* 100.2
NBA_AVG_EFFICIENCY == 1146          \* 114.6
NBA_EFFICIENCY_DEFLATOR == 82       \* 0.82, in hundredths
NBA_SEASON_WEIGHT == 40             \* 0.40
NBA_ROLLING_10_WEIGHT == 35         \* 0.35
NBA_ROLLING_20_WEIGHT == 25         \* 0.25
NBA_LOCATION_BLEND_WEIGHT == 40     \* 0.40
NBA_HOME_COURT_ADVANTAGE == 20      \* 2.0, in tenths of a point
\* one entry of the table of elite venues, in tenths of a point
NBA_ELITE_HOME_COURTS == "Denver Nuggets" :> 35

NBA_get_home_court_advantage(home_team, neutral) ==
    IF neutral THEN 0
    ELSE DictGet(NBA_ELITE_HOME_COURTS, home_team, NBA_HOME_COURT_ADVANTAGE)

\* season + rolling + location blend of one rating, in 1/1000; kind is
\* "oe" or "de", location "home" or "away".  A missing or null season value
\* is the league average; every blend is a multiple of 5/1000, so the
\* location blend's division is exact.
NBA_blend_efficiency(team_data, kind, location, avg) ==
    LET season == Get(team_data, "adj_" \o kind)
        season_val == IF IsNone(season) THEN avg ELSE Val(season)
        r10 == Get(team_data, "rolling_10_" \o kind)
        r20 == Get(team_data, "rolling_20_" \o kind)
        blended ==
            IF ~IsNone(r10) /\ ~IsNone(r20)
            THEN season_val * NBA_SEASON_WEIGHT
                 + Val(r10) * NBA_ROLLING_10_WEIGHT
                 + Val(r20) * NBA_ROLLING_20_WEIGHT
            ELSE IF ~IsNone(r10) THEN season_val * 55 + Val(r10) * 45
            ELSE IF ~IsNone(r20) THEN season_val * 60 + Val(r20) * 40
            ELSE season_val * 100
        loc_val == Get(team_data, location \o "_" \o kind)
    IN  IF ~IsNone(loc_val)
        THEN (blended * (100 - NBA_LOCATION_BLEND_WEIGHT)
              + Val(loc_val) * 100 * NBA_LOCATION_BLEND_WEIGHT) \div 100
        ELSE blended

\* season + rolling pace, in 1/1000
NBA_blend_tempo(team_data) ==
    LET base_tempo == OrElse(Get(team_data, "adj_tempo"), NBA_AVG_PACE)
        r10_pace == Get(team_data, "rolling_10_pace")
        r20_pace == Get(team_data, "rolling_20_pace")
    IN  IF ~IsNone(r10_pace) /\ ~IsNone(r20_pace)
        THEN base_tempo * NBA_SEASON_WEIGHT
             + Val(r10_pace) * NBA_ROLLING_10_WEIGHT
             + Val(r20_pace) * NBA_ROLLING_20_WEIGHT
        ELSE IF ~IsNone(r10_pace) THEN base_tempo * 55 + Val(r10_pace) * 45
        ELSE base_tempo * 100

\* a rating in 1/1000 regressed toward the league average, in 1/100000
NBA_regress(rating) ==
    rating * NBA_EFFICIENCY_DEFLATOR
    + NBA_AVG_EFFICIENCY * 100 * (100 - NBA_EFFICIENCY_DEFLATOR)

\* Exact products beyond the integer range.  The product a * b of naturals
\* a < 10^9 and b < 10^8, as its four digits base LIMB, most significant
\* first.
LIMB == 100 * 100

MulLimbs(a, b) ==
    LET a1 == a \div LIMB
        a0 == a % LIMB
        b1 == b \div LIMB
        b0 == b % LIMB
        p0 == a0 * b0
        m == a1 * b0 + a0 * b1 + p0 \div LIMB
        h == a1 * b1 + m \div LIMB
    IN  <<h \div LIMB, h % LIMB, m % LIMB, p0 % LIMB>>

\* round(ppp_diff * tempo / 100 - hca, 1) in tenths of a point, for
\* ppp_diff in 1/100000, tempo in 1/20000 and hca in tenths:
\* ppp_diff * tempo * 50 / LIMB^3 tenths, ties to even
NBA_round_spread(ppp_diff, tempo, hca) ==
    LET p == MulLimbs(50 * Abs(ppp_diff), tempo)
        above == \/ p[2] > LIMB \div 2
                 \/ p[2] = LIMB \div 2 /\ (p[3] > 0 \/ p[4] > 0)
        tie == p[2] = LIMB \div 2 /\ p[3] = 0 /\ p[4] = 0
        Nearest(floor) ==
            IF above \/ (tie /\ floor % 2 # 0) THEN floor + 1 ELSE floor
    IN  IF ppp_diff >= 0 THEN Nearest(p[1] - hca) ELSE -Nearest(p[1] + hca)

\* predicted_spread = away score minus home score in PT units, rounded to
\* 0.1
NBA_calculate_expected_score(away, home, home_name, neutral) ==
    LET away_oe == NBA_blend_efficiency(away, "oe", "away", NBA_AVG_EFFICIENCY)
        away_de == NBA_blend_efficiency(away, "de", "away", NBA_AVG_EFFICIENCY)
        home_oe == NBA_blend_efficiency(home, "oe", "home", NBA_AVG_EFFICIENCY)
        home_de == NBA_blend_efficiency(home, "de", "home", NBA_AVG_EFFICIENCY)
        away_tempo == NBA_blend_tempo(away)
        home_tempo == NBA_blend_tempo(home)
        \* expected_tempo in 1/20000: (away + home) / 2 * 0.9 + AVG_PACE * 0.1
        expected_tempo == 9 * (away_tempo + home_tempo) + 200 * NBA_AVG_PACE
        away_ppp == NBA_regress(away_oe)
                    + (NBA_regress(home_de) - NBA_AVG_EFFICIENCY * 10000)
        home_ppp == NBA_regress(home_oe)
                    + (NBA_regress(away_de) - NBA_AVG_EFFICIENCY * 10000)
        hca == NBA_get_home_court_advantage(home_name, neutral)
    IN  [predicted_spread |->
             NBA_round_spread(away_ppp - home_ppp, expected_tempo, hca) * TENTH,
         expected_tempo |-> RoundTo(expected_tempo, 2000) \div 2000,
         hca |-> hca]

\* calculate_expected_score of the class running
ExpectedScoreOf(sp, in) ==
    IF sp = "NCAA"
    THEN NCAA_calculate_expected_score(in.away, in.home, in.home_name, in.neutral)
    ELSE Some(NBA_calculate_expected_score(in.away, in.home, in.home_name,
                                           in.neutral))

(***************************************************************************)
(* The projected total of calculate_expected_score, in PT units rounded to *)
(* 0.1 (ties of the exact value to even).  The home court advantage is     *)
(* added to one score and taken from the other, so it does not reach the   *)
(* total; the per-team scores the function also returns are not modelled.  *)
(***************************************************************************)
NCAA_AVG_TOTAL == 1435            \* 143.5
NCAA_TEMPO_TOTAL_FACTOR == 4      \* 0.4, in tenths
NBA_AVG_TOTAL == 2295             \* 229.5
NBA_TOTAL_REGRESSION == 15        \* 0.15, in hundredths
NBA_TEMPO_TOTAL_FACTOR == 5       \* 0.5, in tenths

WEAK_CONFERENCES ==
    {"SWAC", "MEAC", "Southland", "Big South", "A-Sun", "WAC", "Summit"}

MID_MAJOR_CONFERENCES ==
    {"Southern", "Big Sky", "Horizon", "CAA", "Sun Belt", "MAC", "OVC", "MVC"}

\* in hundredths
get_conference_regression_factor(conf1, conf2) ==
    LET power_5 == {"SEC", "Big Ten", "Big 12", "ACC", "Pac-12", "Big East"}
    IN  IF conf1 \in WEAK_CONFERENCES /\ conf2 \in WEAK_CONFERENCES THEN 80
        ELSE IF conf1 \in WEAK_CONFERENCES \/ conf2 \in WEAK_CONFERENCES THEN 75
        ELSE IF conf1 \in MID_MAJOR_CONFERENCES /\ conf2 \in MID_MAJOR_CONFERENCES
        THEN 70
        ELSE IF conf1 \in power_5 /\ conf2 \in power_5 THEN 55
        ELSE IF conf1 \in power_5 \/ conf2 \in power_5 THEN 60
        ELSE 65

\* the nearest integer to (h * U + rest) / (2 * U) for 0 <= rest < U, ties
\* to even
RoundHalfUnits(h, rest_zero) ==
    LET q == h \div 2
    IN  IF h % 2 = 0 THEN q
        ELSE IF rest_zero /\ q % 2 = 0 THEN q
        ELSE q + 1

\* predicted_total: raw_total * (1 - regression_factor)
\* + AVG_TOTAL * regression_factor + tempo_deviation * TEMPO_TOTAL_FACTOR * 2,
\* None when neither team is known.  With S the sum of the two ppp in
\* 1/1000 and T the expected tempo in 1/200, the total in tenths is
\* (S * T * (100 - r) + 1000000 * b) / 200000000.
NCAA_predicted_total(away, home) ==
    IF away = EmptyDict /\ home = EmptyDict THEN None
    ELSE
    LET away_adj_oe == NCAA_adj_oe(away)
        away_adj_de == NCAA_adj_de(away)
        home_adj_oe == NCAA_adj_oe(home)
        home_adj_de == NCAA_adj_de(home)
        expected_tempo == 9 * (NCAA_tempo(away) + NCAA_tempo(home))
                          + 2 * NCAA_AVG_TEMPO
        ppp_sum == NCAA_matchup_ppp(away_adj_oe, home_adj_de)
                   + NCAA_matchup_ppp(home_adj_oe, away_adj_de)
        regression_factor ==
            get_conference_regression_factor(DictGet(away, "conference", ""),
                                             DictGet(home, "conference", ""))
        a == MulLimbs(ppp_sum * (100 - regression_factor), expected_tempo)
        b == 2 * NCAA_AVG_TOTAL * regression_factor
             + 2 * NCAA_TEMPO_TOTAL_FACTOR
               * (expected_tempo - 20 * NCAA_AVG_TEMPO)
        low == a[3] * LIMB + a[4] + (b % 100) * 1000 * 1000
        h == a[1] * LIMB + a[2] + b \div 100 + low \div (LIMB * LIMB)
    IN  Some(RoundHalfUnits(h, low % (LIMB * LIMB) = 0) * TENTH)

\* predicted_total: raw_total * (1 - TOTAL_REGRESSION)
\* + AVG_TOTAL * TOTAL_REGRESSION + tempo_dev * TEMPO_TOTAL_FACTOR * 2.
\* With S the sum of the two ppp in 1/100000 and T the expected tempo in
\* 1/20000, the total in tenths is
\* (S * T * (100 - TOTAL_REGRESSION) + 10^9 * b) / (2 * 10^12).
NBA_predicted_total(away, home) ==
    LET away_oe == NBA_blend_efficiency(away, "oe", "away", NBA_AVG_EFFICIENCY)
        away_de == NBA_blend_efficiency(away, "de", "away", NBA_AVG_EFFICIENCY)
        home_oe == NBA_blend_efficiency(home, "oe", "home", NBA_AVG_EFFICIENCY)
        home_de == NBA_blend_efficiency(home, "de", "home", NBA_AVG_EFFICIENCY)
        expected_tempo == 9 * (NBA_blend_tempo(away) + NBA_blend_tempo(home))
                          + 200 * NBA_AVG_PACE
        ppp_sum == NBA_regress(away_oe) + NBA_regress(home_de)
                   + NBA_regress(home_oe) + NBA_regress(away_de)
                   - 2 * NBA_AVG_EFFICIENCY * LIMB
        a == MulLimbs(expected_tempo * (100 - NBA_TOTAL_REGRESSION), ppp_sum)
        b == 20 * NBA_AVG_TOTAL * NBA_TOTAL_REGRESSION
             + (2 * NBA_TEMPO_TOTAL_FACTOR
                * (expected_tempo - 2000 * NBA_AVG_PACE)) \div 10
        mid == a[2] + (b % 1000) * 10
        h == a[1] + b \div 1000 + mid \div LIMB
    IN  RoundHalfUnits(h, mid % LIMB = 0 /\ a[3] = 0 /\ a[4] = 0) * TENTH

\* predicted_total of calculate_expected_score of the class running
PredictedTotalOf(sp, in) ==
    IF sp = "NCAA" THEN NCAA_predicted_total(in.away, in.home)
    ELSE Some(NBA_predicted_total(in.away, in.home))

(***************************************************************************)
(* SpecScore: calculate_expected_score called on a matchup of two teams    *)
(* drawn from bounded rating grids, and then on the same two teams with    *)
(* the listing swapped.                                                    *)
(***************************************************************************)
MaxRatingStep == 1  \* season offensive ratings: base + 0.0 .. base + 0.1 * MaxRatingStep

\* a team's entry whose every field is null
NCAA_NullTeam ==
    [adj_oe |-> None, sr_off_rtg |-> None, adj_de |-> None,
     pts_allowed_per_game |-> None, adj_tempo |-> None]

NBA_NullTeam ==
    [adj_oe |-> None, adj_de |-> None, rolling_10_oe |-> None,
     rolling_20_oe |-> None, away_oe |-> None, home_oe |-> None,
     rolling_10_pace |-> None]

\* offensive and defensive rating 100.0, pace 70.0
EvenTeam == [adj_oe |-> Some(1000), adj_de |-> Some(1000), adj_tempo |-> Some(700)]

NCAA_TeamGrid ==
    {EmptyDict, NCAA_NullTeam, EvenTeam,
     [adj_oe |-> Some(1100), adj_de |-> Some(950), conference |-> "SWAC"],
     [adj_oe |-> Some(1100), adj_de |-> Some(950), conference |-> "MAC"],
     [adj_oe |-> Some(1100), adj_de |-> Some(950), conference |-> "ACC"]} \cup
    [adj_oe : {None} \cup {Some(1100 + k) : k \in 0..MaxRatingStep},
     sr_off_rtg : {None, Some(1052)},
     adj_de : {Some(1000), Some(1001), Some(950)},
     pts_allowed_per_game : {None, Some(700)},
     adj_tempo : {None, Some(700)}]

NBA_TeamGrid ==
    {EmptyDict, NBA_NullTeam, EvenTeam} \cup
    [adj_oe : {None} \cup {Some(1150 + k) : k \in 0..MaxRatingStep},
     adj_de : {Some(1146), Some(1149)},
     rolling_10_oe : {None, Some(1180)},
     rolling_20_oe : {None, Some(1120)},
     away_oe : {None, Some(1130)},
     home_oe : {None, Some(1170)},
     rolling_10_pace : {None, Some(1030)}]

TeamGrid(sp) == IF sp = "NCAA" THEN NCAA_TeamGrid ELSE NBA_TeamGrid

\* the two names of a matchup, away then home as first listed: a team with
\* an elite venue and one without
TeamNames(sp) ==
    IF sp = "NCAA" THEN <<"Duke", "Elon">>
    ELSE <<"Denver Nuggets", "Orlando Magic">>

ScoreInputs(sp) ==
    {[away_name |-> TeamNames(sp)[1], home_name |-> TeamNames(sp)[2],
      away |-> a, home |-> h, neutral |-> ntr] :
        a \in TeamGrid(sp), h \in TeamGrid(sp), ntr \in BOOLEAN}

InitScore ==
    /\ sport \in Sports
    /\ pc = "score"
    /\ IdleRun
    /\ team = NoTeam
    /\ call = NoCall
    /\ prev = NoCall

CallExpectedScore ==
    /\ pc = "score"
    /\ call = NoCall
    /\ \E in \in ScoreInputs(sport) :
          call' = [fn |-> "expected", in |-> in,
                   out |-> ExpectedScoreOf(sport, in),
                   predicted_total |-> PredictedTotalOf(sport, in)]
    /\ prev' = NoCall
    /\ UNCHANGED <<sport, pc, team>> /\ UnchangedRun

\* the same two teams with the listing reversed: the away team hosts
SwapListing ==
    /\ pc = "score"
    /\ call.fn = "expected"
    /\ prev = NoCall
    /\ LET in == [away_name |-> call.in.home_name,
                  home_name |-> call.in.away_name,
                  away |-> call.in.home, home |-> call.in.away,
                  neutral |-> call.in.neutral]
       IN  call' = [fn |-> "expected", in |-> in,
                    out |-> ExpectedScoreOf(sport, in),
                    predicted_total |-> PredictedTotalOf(sport, in)]
    /\ prev' = call
    /\ UNCHANGED <<sport, pc, team>> /\ UnchangedRun

NextScore ==
    \/ CallExpectedScore
    \/ SwapListing

SpecScore == InitScore /\ [][NextScore]_vars

\* the net rating (offence minus defence) the projection works with for a
\* team listed at the given location, in 1/1000
NetRating(sp, t, location) ==
    IF sp = "NCAA" THEN (NCAA_adj_oe(t) - NCAA_adj_de(t)) * 100
    ELSE NBA_blend_efficiency(t, "oe", location, NBA_AVG_EFFICIENCY)
         - NBA_blend_efficiency(t, "de", location, NBA_AVG_EFFICIENCY)

\* the call is a projection on a neutral court
NeutralProjection(c) ==
    c.fn = "expected" /\ c.in.neutral /\ ~IsNone(c.out)

\* points by which the projection has the away team ahead: NCAA reports
\* home minus away, NBA away minus home
AwayMargin(sp, c) ==
    IF sp = "NCAA" THEN -Val(c.out).predicted_spread
    ELSE Val(c.out).predicted_spread

AwayNet(sp, c) == NetRating(sp, c.in.away, "away")
HomeNet(sp, c) == NetRating(sp, c.in.home, "home")

MLFavoriteThreshold(sp) ==
    IF sp = "NCAA" THEN NCAA_favorite_threshold ELSE NBA_ml_min_edge

MLUnderdogThreshold(sp) ==
    IF sp = "NCAA" THEN NCAA_underdog_threshold ELSE NBA_ml_min_edge

\* the price of the side a moneyline call picked, None when it picked none
PickedPrice(sp, c) ==
    LET lines == IF sp = "NCAA"
                 THEN IF IsNone(c.in.odds) \/ IsNone(Val(c.in.odds).best_odds)
                      THEN [away_ml |-> None, home_ml |-> None]
                      ELSE Val(Val(c.in.odds).best_odds)
                 ELSE [away_ml |-> c.in.away_ml, home_ml |-> c.in.home_ml]
    IN  IF c.out.ml_pick = "AWAY_ML" THEN lines.away_ml
        ELSE IF c.out.ml_pick = "HOME_ML" THEN lines.home_ml
        ELSE None

UnderdogPick(sp, c) ==
    c.fn = "moneyline" /\ ~IsNone(PickedPrice(sp, c)) /\ Val(PickedPrice(sp, c)) > 0

\* C11: a moneyline pick on the side priced at positive odds is produced
\* only when its edge meets the underdog threshold, and that threshold is
\* strictly higher than the one a favourite has to meet.
C11_UnderdogThresholdStricter ==
    UnderdogPick(sport, call) =>
        /\ MLUnderdogThreshold(sport) > MLFavoriteThreshold(sport)
        /\ call.out.ml_value >= MLUnderdogThreshold(sport)

(***************************************************************************)
(* Claims on the moneyline picks of a report                               *)
(***************************************************************************)
\* MIN_WIN_PCT_FOR_UNDERDOG_ML = 0.40, in thousandths
MIN_WIN_PCT_FOR_UNDERDOG_ML == 400

WinPctOf(name) ==
    LET t == CHOOSE t \in KnownTeams : t.name = name
    IN  parse_record(t.wins, t.losses)

\* C12: no moneyline pick at positive odds is emitted for a team whose win
\* percentage is below the floor of 0.40, whichever branch added the pick.
C12_NoUnderdogMLBelowWinPctFloor ==
    \A k \in DOMAIN moneyline_picks :
        moneyline_picks[k].price > 0
            => WinPctOf(moneyline_picks[k].team) >= MIN_WIN_PCT_FOR_UNDERDOG_ML

(***************************************************************************)
(* Claims on the projection of teams without data                          *)
(***************************************************************************)
\* every optional field of the team's entry is absent or null
AllAbsent(t) == \A k \in DOMAIN t : IsNone(t[k])

\* the ratings and the pace the projection worked with are the league
\* averages
LeagueAverageProjection(sp, c) ==
    IF sp = "NCAA"
    THEN /\ Val(c.out).away_adj_oe = NCAA_AVG_EFFICIENCY
         /\ Val(c.out).away_adj_de = NCAA_AVG_EFFICIENCY
         /\ Val(c.out).home_adj_oe = NCAA_AVG_EFFICIENCY
         /\ Val(c.out).home_adj_de = NCAA_AVG_EFFICIENCY
         /\ Val(c.out).expected_tempo = NCAA_AVG_TEMPO
    ELSE /\ \A kind \in {"oe", "de"} :
              /\ NBA_blend_efficiency(c.in.away, kind, "away", NBA_AVG_EFFICIENCY)
                    = NBA_AVG_EFFICIENCY * 100
              /\ NBA_blend_efficiency(c.in.home, kind, "home", NBA_AVG_EFFICIENCY)
                    = NBA_AVG_EFFICIENCY * 100
         /\ Val(c.out).expected_tempo = NBA_AVG_PACE

\* C13: for two teams whose every optional field is absent,
\* calculate_expected_score returns a projection (never None) derived from
\* the league-average ratings and pace.
C13_AbsentFieldsGiveLeagueAverage ==
    (call.fn = "expected" /\ AllAbsent(call.in.away) /\ AllAbsent(call.in.home))
        => (~IsNone(call.out) /\ LeagueAverageProjection(sport, call))


(***************************************************************************)
(* The NBA pick tracker (nba/nba_pick_tracker.py).  picks_file is the      *)
(* content of nba_picks_history.json as load_picks returns it: a missing   *)
(* file, and a file without the locked_dates key, read as the empty        *)
(* content.  A date is a day number.  A stored pick keeps the fields the   *)
(* tracker computes; the fields it copies through from the analysis        *)
(* (edge, grade, odds) are left out.                                       *)
(***************************************************************************)
MaxDay == 2

MaxAnalyses == 2

TOP_PLAY_HIT_PCT == 59

load_picks == picks_file

\* lock_day: the file is written only when the date is not yet locked
lock_day(data, date_str) ==
    IF \E k \in DOMAIN data.locked_dates : data.locked_dates[k] = date_str
    THEN data
    ELSE [data EXCEPT !.locked_dates = Append(@, date_str)]

today_locked_mutant(data, day) == FALSE

\* save_today_picks: today in data.get("locked_dates", [])
today_locked(data, day) ==
    \E k \in DOMAIN data.locked_dates : data.locked_dates[k] = day

\* the "away @ home" -> game_id lookup; a later game replaces an earlier one
RECURSIVE game_id_map(_, _)
game_id_map(gs, key) ==
    IF gs = << >> THEN ""
    ELSE LET g == gs[Len(gs)]
         IN  IF /\ g.away # "" /\ g.home # "" /\ g.game_id # ""
                /\ <<g.away, g.home>> = key
             THEN g.game_id
             ELSE game_id_map(SubSeq(gs, 1, Len(gs) - 1), key)

has_spread(analysis) == analysis.spread_value.pick_team \in {"AWAY", "HOME"}

has_ml(analysis) == analysis.ml_value.ml_pick \in {"AWAY_ML", "HOME_ML"}

top_play_spread(analysis) ==
    has_spread(analysis) /\ analysis.spread_value.hit_pct >= TOP_PLAY_HIT_PCT

top_play_ml(analysis) ==
    has_ml(analysis) /\ analysis.ml_value.hit_pct >= TOP_PLAY_HIT_PCT

\* the analysis passes every "continue" of the loop of save_today_picks
QualifyingAnalysis(analysis, gs) ==
    /\ ~analysis.error
    /\ game_id_map(gs, <<analysis.away_name, analysis.home_name>>) # ""
    /\ has_spread(analysis) \/ has_ml(analysis)
    /\ top_play_spread(analysis) \/ top_play_ml(analysis)

TrackerPick(analysis, gs, day) ==
    [game_id |-> game_id_map(gs, <<analysis.away_name, analysis.home_name>>),
     date |-> day,
     away_team |-> analysis.away_name,
     home_team |-> analysis.home_name,
     spread_pick |-> IF has_spread(analysis)
                     THEN Some(analysis.spread_value.pick_team) ELSE None,
     spread_hit_pct |-> IF has_spread(analysis)
                        THEN Some(analysis.spread_value.hit_pct) ELSE None,
     ml_pick |-> IF analysis.ml_value.ml_pick = "AWAY_ML"
                 THEN Some(analysis.away_name)
                 ELSE IF analysis.ml_value.ml_pick = "HOME_ML"
                      THEN Some(analysis.home_name) ELSE None,
     spread_line |-> Get(analysis.spread_value, "actual_spread"),
     ml_hit_pct |-> IF has_ml(analysis)
                    THEN Some(analysis.ml_value.hit_pct) ELSE None,
     result |-> None,
     top_play_spread |-> top_play_spread(analysis),
     top_play_ml |-> top_play_ml(analysis)]

\* the picks the loop appends, in the order of the analyses
RECURSIVE QualifyingPicks(_, _, _)
QualifyingPicks(as, gs, day) ==
    IF as = << >> THEN << >>
    ELSE LET rest == QualifyingPicks(SubSeq(as, 1, Len(as) - 1), gs, day)
             a == as[Len(as)]
         IN  IF QualifyingAnalysis(a, gs)
             THEN Append(rest, TrackerPick(a, gs, day)) ELSE rest

RECURSIVE PicksNotOf(_, _)
PicksNotOf(ps, day) ==
    IF ps = << >> THEN << >>
    ELSE LET rest == PicksNotOf(SubSeq(ps, 1, Len(ps) - 1), day)
         IN  IF ps[Len(ps)].date # day THEN Append(rest, ps[Len(ps)]) ELSE rest

RECURSIVE PicksOf(_, _)
PicksOf(ps, day) ==
    IF ps = << >> THEN << >>
    ELSE LET rest == PicksOf(SubSeq(ps, 1, Len(ps) - 1), day)
         IN  IF ps[Len(ps)].date = day THEN Append(rest, ps[Len(ps)]) ELSE rest

\* save_today_picks: the content of the file after the call.  A locked day
\* returns before anything is written, and the file is written only when
\* the loop added a pick.
save_today_picks(data, as, gs, day) ==
    IF today_locked(data, day) THEN data
    ELSE LET added == QualifyingPicks(as, gs, day)
         IN  IF Len(added) > 0
             THEN [data EXCEPT !.picks = PicksNotOf(@, day) \o added]
             ELSE data

(***************************************************************************)
(* SpecTracker: the daily run saves the picks of its analyses, a day is    *)
(* locked, the date advances.                                              *)
(***************************************************************************)
TrackerMatchup == <<"Boston Celtics", "Miami Heat">>

TrackerGames ==
    { << >> } \cup
    { <<[away |-> TrackerMatchup[1], home |-> TrackerMatchup[2], game_id |-> gid]>> :
        gid \in {"", "401"} }

TrackerErrorAnalysis ==
    [error |-> TRUE, away_name |-> TrackerMatchup[1],
     home_name |-> TrackerMatchup[2],
     spread_value |-> [pick_team |-> "PASS", hit_pct |-> 0],
     ml_value |-> [ml_pick |-> "NONE", hit_pct |-> 0]]

TrackerValues ==
    { <<[pick_team |-> "PASS", hit_pct |-> 0],
        [ml_pick |-> "NONE", hit_pct |-> 0]>>,
      <<[pick_team |-> "AWAY", hit_pct |-> TOP_PLAY_HIT_PCT - 1],
        [ml_pick |-> "NONE", hit_pct |-> 0]>>,
      <<[pick_team |-> "AWAY", hit_pct |-> TOP_PLAY_HIT_PCT],
        [ml_pick |-> "NONE", hit_pct |-> 0]>>,
      <<[pick_team |-> "PASS", hit_pct |-> 0],
        [ml_pick |-> "HOME_ML", hit_pct |-> TOP_PLAY_HIT_PCT + 1]>>,
      <<[pick_team |-> "AWAY", hit_pct |-> TOP_PLAY_HIT_PCT - 1],
        [ml_pick |-> "HOME_ML", hit_pct |-> TOP_PLAY_HIT_PCT + 1]>> }

TrackerAnalyses ==
    {TrackerErrorAnalysis} \cup
    { [error |-> FALSE, away_name |-> TrackerMatchup[1],
       home_name |-> TrackerMatchup[2],
       spread_value |-> v[1], ml_value |-> v[2]] : v \in TrackerValues }

RECURSIVE SeqsUpTo(_, _)
SeqsUpTo(S, n) ==
    IF n = 0 THEN { << >> }
    ELSE LET shorter == SeqsUpTo(S, n - 1)
         IN  shorter \cup { Append(s, x) : s \in shorter, x \in S }

InitTracker ==
    /\ sport = "NBA"
    /\ pc = "tracker"
    /\ call = NoCall /\ prev = NoCall /\ team = NoTeam
    /\ IdleRun

UnchangedPipeline ==
    UNCHANGED <<sport, pc, call, prev, team, games, idx, analyses,
                spread_picks, totals_picks, moneyline_picks, avoid_games,
                all_ranked, cfg_bound, line_history>>

SaveTodayPicks ==
    /\ pc = "tracker"
    /\ \E as \in SeqsUpTo(TrackerAnalyses, MaxAnalyses), gs \in TrackerGames :
        /\ picks_file' = save_today_picks(load_picks, as, gs, today)
        /\ tracker_op' = [op |-> "save",
                          qualifying |-> QualifyingPicks(as, gs, today)]
    /\ UNCHANGED today
    /\ UnchangedPipeline

LockDay ==
    /\ pc = "tracker"
    /\ \E d \in 1..MaxDay :
        /\ picks_file' = lock_day(load_picks, d)
        /\ tracker_op' = [op |-> "lock", date |-> d]
    /\ UNCHANGED today
    /\ UnchangedPipeline

Midnight ==
    /\ pc = "tracker"
    /\ today < MaxDay
    /\ today' = today + 1
    /\ tracker_op' = [op |-> "midnight"]
    /\ UNCHANGED picks_file
    /\ UnchangedPipeline

NextTracker ==
    \/ SaveTodayPicks
    \/ LockDay
    \/ Midnight

SpecTracker == InitTracker /\ [][NextTracker]_vars

\* C14: a save_today_picks call made while today is locked leaves the whole
\* file as it was: the picks of today, the picks of every other day and the
\* locked dates, whatever analyses and games are passed in.
C14_LockedDayIsFrozen ==
    [][(/\ tracker_op'.op = "save"
        /\ \E k \in DOMAIN picks_file.locked_dates :
               picks_file.locked_dates[k] = today)
       => picks_file' = picks_file]_vars

\* a save on a locked day whose qualifying picks differ from the stored
\* ones, with picks of an earlier day in the file as well
C14_SaveOnLockedDay ==
    /\ tracker_op.op = "save"
    /\ \E k \in DOMAIN picks_file.locked_dates :
           picks_file.locked_dates[k] = today
    /\ tracker_op.qualifying # << >>
    /\ PicksOf(picks_file.picks, today) # << >>
    /\ PicksOf(picks_file.picks, today) # tracker_op.qualifying
    /\ PicksNotOf(picks_file.picks, today) # << >>

\* C15: while today is not locked, the stored picks dated today after a
\* save_today_picks call are exactly the qualifying picks of that call.
C15_TodayHoldsLatestRun ==
    (/\ tracker_op.op = "save"
     /\ ~today_locked(picks_file, today))
    => PicksOf(picks_file.picks, today) = tracker_op.qualifying


(***************************************************************************)
(* The grid search of nba/nba_calibrate.py.  evaluate_params assigns the   *)
(* parameter set to attributes of the module nba_config and to the         *)
(* analyzer object, runs analyze_all_games and restores the attributes.    *)
(* nba_analyzer took its constants with "from nba.nba_config import ...":  *)
(* its functions read the global names of nba_analyzer, which were bound   *)
(* once, when the module was imported.  Weights are in percent, the home   *)
(* court advantage in tenths of a point, the rolling weights of nba_config *)
(* in 1/100000.                                                            *)
(***************************************************************************)
\* the attributes of nba_config when nba_analyzer is imported
nba_config_imported ==
    [HOME_COURT_ADVANTAGE |-> NBA_HOME_COURT_ADVANTAGE,
     SEASON_WEIGHT |-> NBA_SEASON_WEIGHT,
     ROLLING_10_WEIGHT |-> NBA_ROLLING_10_WEIGHT * 1000,
     ROLLING_20_WEIGHT |-> NBA_ROLLING_20_WEIGHT * 1000,
     LOCATION_BLEND_WEIGHT |-> NBA_LOCATION_BLEND_WEIGHT]

\* the global names of nba_analyzer the import statement binds
nba_analyzer_globals ==
    [HOME_COURT_ADVANTAGE |-> nba_config_imported.HOME_COURT_ADVANTAGE,
     SEASON_WEIGHT |-> nba_config_imported.SEASON_WEIGHT,
     LOCATION_BLEND_WEIGHT |-> nba_config_imported.LOCATION_BLEND_WEIGHT]

\* PARAM_GRID, with EFFICIENCY_DEFLATOR at the value of the class
PARAM_GRID ==
    [EFFICIENCY_DEFLATOR : {NBA_EFFICIENCY_DEFLATOR},
     HOME_COURT_ADVANTAGE : {15, 20, 25},
     SEASON_WEIGHT : {35, 40, 45, 50},
     LOCATION_BLEND_WEIGHT : {30, 35, 40},
     ff_weight : {10, 15, 20}]

\* evaluate_params: the attributes of nba_config after the overrides
override_config(cfg, params) ==
    [cfg EXCEPT !.HOME_COURT_ADVANTAGE = params.HOME_COURT_ADVANTAGE,
                !.SEASON_WEIGHT = params.SEASON_WEIGHT,
                !.ROLLING_10_WEIGHT = (100 - params.SEASON_WEIGHT) * 583,
                !.ROLLING_20_WEIGHT = (100 - params.SEASON_WEIGHT) * 417,
                !.LOCATION_BLEND_WEIGHT = params.LOCATION_BLEND_WEIGHT]

\* the value the analysis reads for each grid-searched constant: the global
\* name of nba_analyzer (get_home_court_advantage, _blend_efficiency,
\* calculate_expected_score), and for the Four-Factors weight the literal
\* of analyze_game; cfg and the local ff_weight are not looked at
analysis_reads(cfg, params) ==
    [HOME_COURT_ADVANTAGE |-> nba_analyzer_globals.HOME_COURT_ADVANTAGE,
     SEASON_WEIGHT |-> nba_analyzer_globals.SEASON_WEIGHT,
     LOCATION_BLEND_WEIGHT |-> nba_analyzer_globals.LOCATION_BLEND_WEIGHT,
     ff_weight |-> 15]

CalibrateTeams ==
    { [adj_oe |-> Some(1180), adj_de |-> Some(1100),
       rolling_10_oe |-> Some(1200), rolling_20_oe |-> Some(1190),
       away_oe |-> Some(1160), home_oe |-> Some(1190)],
      [adj_oe |-> Some(1120), adj_de |-> Some(1130),
       away_oe |-> Some(1100), home_oe |-> Some(1140)] }

CalibrateInputs ==
    [away_name : {"Orlando Magic"}, home_name : {"Denver Nuggets", "Miami Heat"},
     away : CalibrateTeams, home : CalibrateTeams, neutral : {FALSE},
     four_factors : {None, Some(2 * PT)}]

\* analyze_game for one game of the data file: the projection and the
\* spread adjusted by the Four-Factors edge
calibrate_analysis(in) ==
    LET expected == NBA_calculate_expected_score(in.away, in.home,
                                                 in.home_name, in.neutral)
    IN  [predicted_spread |->
             Round1(NBA_adjusted_spread(expected.predicted_spread, 0,
                                        in.four_factors, 0, 0, None)),
         hca |-> expected.hca]

InitCalibrate ==
    /\ sport = "NBA"
    /\ pc = "calibrate"
    /\ call = [fn |-> "imported", cfg |-> nba_config_imported]
    /\ prev = NoCall /\ team = NoTeam
    /\ IdleRun

\* evaluate_params, up to the call of analyze_all_games
OverrideConfig ==
    /\ pc = "calibrate"
    /\ call.fn = "imported"
    /\ \E params \in PARAM_GRID, in \in CalibrateInputs :
          call' = [fn |-> "overridden", old |-> call.cfg,
                   cfg |-> override_config(call.cfg, params),
                   params |-> params, in |-> in]
    /\ UNCHANGED <<sport, pc, prev, team>> /\ UnchangedRun

\* analyzer.analyze_all_games()
RunAnalyses ==
    /\ pc = "calibrate"
    /\ call.fn = "overridden"
    /\ call' = [fn |-> "analyzed", old |-> call.old, cfg |-> call.cfg,
                params |-> call.params, in |-> call.in,
                reads |-> analysis_reads(call.cfg, call.params),
                out |-> calibrate_analysis(call.in)]
    /\ UNCHANGED <<sport, pc, prev, team>> /\ UnchangedRun

\* the attributes of nba_config are set back, after the scoring or when
\* the results cannot be fetched
RestoreConfig ==
    /\ pc = "calibrate"
    /\ call.fn = "analyzed"
    /\ call' = [fn |-> "imported", cfg |-> call.old]
    /\ UNCHANGED <<sport, pc, prev, team>> /\ UnchangedRun

NextCalibrate ==
    \/ OverrideConfig
    \/ RunAnalyses
    \/ RestoreConfig

SpecCalibrate == InitCalibrate /\ [][NextCalibrate]_vars

GridSearched ==
    {"HOME_COURT_ADVANTAGE", "SEASON_WEIGHT", "LOCATION_BLEND_WEIGHT",
     "ff_weight"}

\* C16: the analysis run for a parameter set reads, for every grid-searched
\* constant evaluate_params overrides, the value of the parameter set.
C16_RunReadsOverriddenConstants ==
    call.fn = "analyzed"
    => \A name \in GridSearched : call.reads[name] = call.params[name]


\* the projection is for two teams rated 100.0 on offence and defence with
\* pace 70.0, on a neutral site
EvenMatchup(c) ==
    /\ c.fn = "expected"
    /\ c.in.away = EvenTeam /\ c.in.home = EvenTeam
    /\ c.in.neutral

LeagueAverageTotal(sp) == IF sp = "NCAA" THEN NCAA_AVG_TOTAL ELSE NBA_AVG_TOTAL

\* C17: for two teams rated 100 / 100 with pace 70 on a neutral site the
\* projected spread is 0.0 and the projected total is the league-average
\* total.
C17_EvenMatchupIsLeagueAverage ==
    EvenMatchup(call)
    => /\ Val(call.out).predicted_spread = 0
       /\ Val(call.predicted_total) = LeagueAverageTotal(sport) * TENTH


(***************************************************************************)
(* SpecRerun: analyze_all_games is called twice in succession on one       *)
(* analyzer object.  The data object is the list of games, each carrying   *)
(* its two entries of the team stats table; the configuration is the       *)
(* module's constants.  analyze_game and the functions it calls only read  *)
(* self.games and self.teams: every dict they write to is one they have    *)
(* just built.                                                             *)
(***************************************************************************)
\* the loop of analyze_all_games over the games: NCAA lets an exception of
\* analyze_game leave the function, NBA appends an error object
RECURSIVE analyze_all_games(_, _)
analyze_all_games(sp, gs) ==
    IF gs = << >> THEN [raised |-> FALSE, analyses |-> << >>]
    ELSE LET before == analyze_all_games(sp, SubSeq(gs, 1, Len(gs) - 1))
             g == gs[Len(gs)]
         IN  IF before.raised THEN before
             ELSE IF GameRaises(g)
             THEN IF sp = "NCAA" THEN [before EXCEPT !.raised = TRUE]
                  ELSE [before EXCEPT
                          !.analyses = Append(@, NBA_error_analysis(g))]
             ELSE [before EXCEPT
                     !.analyses = Append(@, IF sp = "NCAA"
                                            THEN NCAA_analyze_game(g)
                                            ELSE NBA_analyze_game(g))]

data_after_run_mutant(gs) ==
    [k \in DOMAIN gs |-> [gs[k] EXCEPT !.spread = None]]

\* self.games (with the team entries) when analyze_all_games has returned
data_after_run(gs) == gs

RerunGrid(sp) ==
    {Game(FALSE, TeamA, TeamB, p, sp, mk) :
        p \in GamePredGrid, mk \in MarketGrid(sp)}
    \cup {Game(TRUE, TeamA, TeamB, 0, sp, NoMarket),
          Game(FALSE, UnknownTeam("X"), UnknownTeam("Y"), 0, sp, NoMarket)}

InitRerun ==
    /\ sport \in Sports
    /\ games \in UNION {[1..n -> RerunGrid(sport)] : n \in 1..MaxGames}
    /\ pc = "rerun"
    /\ idx = 0 /\ analyses = << >>
    /\ spread_picks = << >> /\ totals_picks = << >> /\ moneyline_picks = << >>
    /\ avoid_games = << >> /\ all_ranked = << >> /\ cfg_bound = FALSE
    /\ call = NoCall /\ prev = NoCall /\ team = NoTeam
    /\ IdleTracker

FirstRun ==
    /\ pc = "rerun"
    /\ call = NoCall
    /\ call' = [fn |-> "analyze_all_games", data |-> games,
                out |-> analyze_all_games(sport, games)]
    /\ games' = data_after_run(games)
    /\ UNCHANGED <<sport, pc, prev, team, idx, analyses, spread_picks,
                   totals_picks, moneyline_picks, avoid_games, all_ranked,
                   cfg_bound>>
    /\ UnchangedTracker

SecondRun ==
    /\ pc = "rerun"
    /\ call.fn = "analyze_all_games"
    /\ prev = NoCall
    /\ prev' = call
    /\ call' = [fn |-> "analyze_all_games", data |-> games,
                out |-> analyze_all_games(sport, games)]
    /\ games' = data_after_run(games)
    /\ UNCHANGED <<sport, pc, team, idx, analyses, spread_picks,
                   totals_picks, moneyline_picks, avoid_games, all_ranked,
                   cfg_bound>>
    /\ UnchangedTracker

NextRerun ==
    \/ FirstRun
    \/ SecondRun

SpecRerun == InitRerun /\ [][NextRerun]_vars

lower(w) ==
    CASE w = "Kansas" -> "kansas" [] w = "City" -> "city"
      [] w = "Roos" -> "roos" [] w = "Kangaroos" -> "kangaroos"
      [] w = "Jayhawks" -> "jayhawks" [] w = "VMI" -> "vmi"
      [] w = "Cadets" -> "cadets" [] w = "North" -> "north"
      [] w = "Carolina" -> "carolina" [] w = "Central" -> "central"
      [] w = "Eagles" -> "eagles" [] w = "Penn" -> "penn"
      [] w = "State" -> "state" [] w = "Lions" -> "lions"
      [] OTHER -> w

LowerName(name) == [i \in DOMAIN name |-> lower(name[i])]

AMBIGUOUS_FIRST_WORDS_mutant == {"north", "south"}

AMBIGUOUS_FIRST_WORDS ==
    {"kansas", "florida", "miami", "texas", "ohio", "georgia",
     "michigan", "indiana", "virginia", "north", "south", "west",
     "new", "san", "saint", "st", "utah", "oregon", "washington",
     "arizona", "colorado", "kentucky", "tennessee", "alabama",
     "mississippi", "louisiana", "iowa", "minnesota", "wisconsin",
     "illinois", "central", "eastern", "western", "northern", "southern"}

\* the entries of two words
AMBIGUOUS_TWO_WORDS ==
    {<<"north", "carolina">>, <<"south", "carolina">>, <<"south", "dakota">>,
     <<"north", "dakota">>, <<"west", "virginia">>, <<"south", "florida">>,
     <<"north", "texas">>, <<"east", "carolina">>, <<"san", "diego">>,
     <<"san", "jose">>, <<"saint", "louis">>, <<"florida", "state">>,
     <<"georgia", "state">>, <<"texas", "state">>, <<"ohio", "state">>,
     <<"michigan", "state">>, <<"arizona", "state">>, <<"oregon", "state">>,
     <<"washington", "state">>, <<"penn", "state">>, <<"iowa", "state">>,
     <<"kansas", "state">>, <<"mississippi", "state">>, <<"new", "mexico">>,
     <<"new", "orleans">>, <<"central", "florida">>,
     <<"eastern", "kentucky">>, <<"western", "kentucky">>,
     <<"northern", "iowa">>, <<"southern", "illinois">>}

\* the part of ALIAS_TO_CANONICAL the names of the model can reach
ALIAS_TO_CANONICAL ==
    [k \in {<<"kansas">>, <<"kansas", "jayhawks">>, <<"jayhawks">>,
            <<"kansas", "city">>, <<"kansas", "city", "roos">>, <<"roos">>,
            <<"vmi">>, <<"north", "carolina">>, <<"penn">>,
            <<"penn", "state">>} |->
        CASE k \in {<<"kansas">>, <<"kansas", "jayhawks">>, <<"jayhawks">>}
               -> <<"Kansas">>
          [] k \in {<<"kansas", "city">>, <<"kansas", "city", "roos">>,
                    <<"roos">>} -> <<"Kansas", "City">>
          [] k = <<"vmi">> -> <<"VMI">>
          [] k = <<"north", "carolina">> -> <<"North", "Carolina">>
          [] k = <<"penn">> -> <<"Penn">>
          [] OTHER -> <<"Penn", "State">>]

\* the mascots normalize_team_name strips, in its order
MascotSuffixes ==
    <<"Wildcats", "Tigers", "Bears", "Bulldogs", "Eagles", "Hawks", "Cougars",
      "Cardinals", "Ducks", "Huskies", "Seminoles", "Gators", "Razorbacks",
      "Cavaliers">>

\* name.replace(" " + suffix, ""): the words after the first that are the
\* suffix are dropped
RECURSIVE WithoutWord(_, _)
WithoutWord(name, suffix) ==
    IF Len(name) <= 1 THEN name
    ELSE LET front == WithoutWord(SubSeq(name, 1, Len(name) - 1), suffix)
         IN  IF name[Len(name)] = suffix THEN front
             ELSE Append(front, name[Len(name)])

RECURSIVE StripSuffixes(_, _)
StripSuffixes(name, k) ==
    IF k > Len(MascotSuffixes) THEN name
    ELSE LET test_name == LowerName(WithoutWord(name, MascotSuffixes[k]))
         IN  IF test_name \in DOMAIN ALIAS_TO_CANONICAL
             THEN ALIAS_TO_CANONICAL[test_name]
             ELSE StripSuffixes(name, k + 1)

normalize_team_name(name) ==
    IF name = << >> THEN name
    ELSE IF LowerName(name) \in DOMAIN ALIAS_TO_CANONICAL
    THEN ALIAS_TO_CANONICAL[LowerName(name)]
    ELSE StripSuffixes(name, 1)

\* "team and team.get('record')"
HasRecord(t) ==
    /\ t # EmptyDict
    /\ ~IsNone(Get(t, "record"))
    /\ Val(Get(t, "record")) # ""

\* {**a, **b}
MergeDicts(a, b) ==
    [k \in DOMAIN a \cup DOMAIN b |-> IF k \in DOMAIN b THEN b[k] ELSE a[k]]

get_team_data(teams, team_name) ==
    LET direct == DictGet(teams, team_name, EmptyDict)
        normalized_team ==
            DictGet(teams, normalize_team_name(team_name), EmptyDict)
        team1 == IF ~HasRecord(direct) /\ HasRecord(normalized_team)
                 THEN normalized_team ELSE direct
        words == team_name
        Merged(found) ==
            IF HasRecord(found)
            THEN IF team1 # EmptyDict THEN MergeDicts(team1, found) ELSE found
            ELSE team1
    IN  IF HasRecord(team1) \/ Len(words) < 2 THEN team1
        ELSE IF lower(words[1]) \notin AMBIGUOUS_FIRST_WORDS
        THEN Merged(DictGet(teams, <<words[1]>>, EmptyDict))
        ELSE IF Len(words) >= 3
                /\ LowerName(SubSeq(words, 1, 2)) \notin AMBIGUOUS_TWO_WORDS
        THEN Merged(DictGet(teams, SubSeq(words, 1, 2), EmptyDict))
        ELSE team1

(***************************************************************************)
(* SpecResolve: get_team_data called for a name on a stats table.          *)
(***************************************************************************)
TableKeys ==
    {<<"Kansas">>, <<"Kansas", "City">>, <<"VMI">>, <<"North", "Carolina">>,
     <<"Penn">>, <<"Penn", "State">>}

\* the record string that tells the entries apart
RecordOf(key) ==
    CASE key = <<"Kansas">> -> "20-3"
      [] key = <<"Kansas", "City">> -> "10-12"
      [] key = <<"VMI">> -> "9-14"
      [] key = <<"North", "Carolina">> -> "18-5"
      [] key = <<"Penn">> -> "12-9"
      [] OTHER -> "14-8"

LookupNames ==
    {<<"Kansas", "City", "Roos">>, <<"Kansas", "City", "Kangaroos">>,
     <<"Kansas", "Jayhawks">>, <<"Kansas", "Cadets">>, <<"VMI", "Cadets">>,
     <<"North", "Carolina", "Central", "Eagles">>,
     <<"Penn", "State", "Lions">>, <<"Kansas", "City">>}

\* a table with records under some of the keys, and possibly an entry
\* without a record under the name that is looked up
TeamsTable(keys, team_name, bare) ==
    [k \in keys \cup (IF bare THEN {team_name} ELSE {}) |->
        IF k \in keys THEN [record |-> Some(RecordOf(k))]
        ELSE [record |-> None, conference |-> "Summit"]]

InitResolve ==
    /\ sport = "NCAA"
    /\ pc = "resolve"
    /\ \E keys \in SUBSET TableKeys, team_name \in LookupNames, bare \in BOOLEAN :
          call = [fn |-> "lookup", teams |-> TeamsTable(keys, team_name, bare),
                  team_name |-> team_name]
    /\ prev = NoCall /\ team = NoTeam
    /\ IdleRun

GetTeamData ==
    /\ pc = "resolve"
    /\ call.fn = "lookup"
    /\ call' = [fn |-> "get_team_data", teams |-> call.teams,
                team_name |-> call.team_name,
                out |-> get_team_data(call.teams, call.team_name)]
    /\ UNCHANGED <<sport, pc, prev, team>> /\ UnchangedRun

NextResolve == GetTeamData

SpecResolve == InitResolve /\ [][NextResolve]_vars

\* the entry returned carries the record of the entry under key
ResolvedTo(c, key) ==
    /\ key \in DOMAIN c.teams
    /\ HasRecord(c.teams[key])
    /\ Get(c.out, "record") = c.teams[key].record

FirstWordAmbiguous(name) ==
    Len(name) >= 2 /\ lower(name[1]) \in
        {"kansas", "florida", "miami", "texas", "ohio", "georgia",
         "michigan", "indiana", "virginia", "north", "south", "west",
         "new", "san", "saint", "st", "utah", "oregon", "washington",
         "arizona", "colorado", "kentucky", "tennessee", "alabama",
         "mississippi", "louisiana", "iowa", "minnesota", "wisconsin",
         "illinois", "central", "eastern", "western", "northern", "southern"}

\* C19: a longer name that the alias table does not map is never resolved
\* to the entry of its first word when that word is on the disambiguation
\* list, nor to the entry of its first two words when they are on the
\* two-word list; "Kansas City Roos" gets the "Kansas City" entry.
C19_NoAmbiguousShortening ==
    call.fn = "get_team_data" =>
    LET name == call.team_name
        canonical == normalize_team_name(name)
    IN  /\ (FirstWordAmbiguous(name) /\ canonical # <<name[1]>>)
           => ~ResolvedTo(call, <<name[1]>>)
        /\ (/\ Len(name) >= 3
            /\ LowerName(SubSeq(name, 1, 2)) \in AMBIGUOUS_TWO_WORDS
            /\ canonical # SubSeq(name, 1, 2))
           => ~ResolvedTo(call, SubSeq(name, 1, 2))
        /\ (/\ name = <<"Kansas", "City", "Roos">>
            /\ <<"Kansas", "City">> \in DOMAIN call.teams)
           => ResolvedTo(call, <<"Kansas", "City">>)

\* a name with no alias falls back to the entry of its first two words
\* while the entry of its first word is in the table
C19_FallsBackToTwoWords ==
    /\ call.fn = "get_team_data"
    /\ call.team_name = <<"Kansas", "City", "Kangaroos">>
    /\ <<"Kansas">> \in DOMAIN call.teams
    /\ ResolvedTo(call, <<"Kansas", "City">>)


(***************************************************************************)
(* The rest and schedule rules of calculate_situational_adjustments, in    *)
(* tenths of a point: the back-to-back block and the rest-advantage block. *)
(* The other blocks (injuries, travel, form, ...) add nothing for the      *)
(* teams of this model, which carry only schedule fields and, some of      *)
(* them, adj_em.  A positive total favours the away team.                  *)
(***************************************************************************)
NBA_SITUATIONAL_ADJUSTMENTS ==
    [b2b_home |-> -30, b2b_road |-> -45, b2b_second_road |-> -55,
     both_b2b_cancel |-> 15,
     rest_advantage_2plus |-> 15, rest_advantage_3plus |-> 25]

NCAA_SITUATIONAL_ADJUSTMENTS ==
    [back_to_back |-> -25, back_to_back_road |-> -35,
     rest_advantage_3plus |-> 15, rest_advantage_5plus |-> 25]

\* what the back-to-back block adds to total_adj.  With both teams on a
\* back-to-back the block reads both_b2b_cancel for the text of the
\* adjustment and leaves total_adj alone.
NBA_back_to_back_adj(away, home) ==
    LET away_b2b == DictGet(away, "is_back_to_back", FALSE)
        home_b2b == DictGet(home, "is_back_to_back", FALSE)
    IN  IF away_b2b /\ home_b2b THEN 0
        ELSE (IF away_b2b
              THEN IF DictGet(away, "is_second_road_b2b", FALSE)
                   THEN NBA_SITUATIONAL_ADJUSTMENTS.b2b_second_road
                   ELSE NBA_SITUATIONAL_ADJUSTMENTS.b2b_road
              ELSE 0)
             - (IF home_b2b THEN NBA_SITUATIONAL_ADJUSTMENTS.b2b_home ELSE 0)

NBA_rest_adj(away, home) ==
    LET rest_diff == DictGet(away, "rest_days", 2) - DictGet(home, "rest_days", 2)
    IN  IF rest_diff >= 3 THEN NBA_SITUATIONAL_ADJUSTMENTS.rest_advantage_3plus
        ELSE IF rest_diff >= 2
        THEN NBA_SITUATIONAL_ADJUSTMENTS.rest_advantage_2plus
        ELSE IF rest_diff <= -3
        THEN -NBA_SITUATIONAL_ADJUSTMENTS.rest_advantage_3plus
        ELSE IF rest_diff <= -2
        THEN -NBA_SITUATIONAL_ADJUSTMENTS.rest_advantage_2plus
        ELSE 0

NCAA_back_to_back_adj(away, home) ==
    (IF DictGet(away, "is_back_to_back", FALSE)
     THEN NCAA_SITUATIONAL_ADJUSTMENTS.back_to_back_road ELSE 0)
    - (IF DictGet(home, "is_back_to_back", FALSE)
       THEN NCAA_SITUATIONAL_ADJUSTMENTS.back_to_back ELSE 0)

\* the rest rule needs both rest_days present and non-zero
NCAA_rest_adj(away, home) ==
    LET away_rest == DictGet(away, "rest_days", 0)
        home_rest == DictGet(home, "rest_days", 0)
        rest_diff == away_rest - home_rest
    IN  IF away_rest = 0 \/ home_rest = 0 THEN 0
        ELSE IF rest_diff >= 5
        THEN NCAA_SITUATIONAL_ADJUSTMENTS.rest_advantage_5plus
        ELSE IF rest_diff >= 3
        THEN NCAA_SITUATIONAL_ADJUSTMENTS.rest_advantage_3plus
        ELSE IF rest_diff <= -5
        THEN -NCAA_SITUATIONAL_ADJUSTMENTS.rest_advantage_5plus
        ELSE IF rest_diff <= -3
        THEN -NCAA_SITUATIONAL_ADJUSTMENTS.rest_advantage_3plus
        ELSE 0

\* the text lines of the back-to-back block: each is modelled by the signed
\* value it prints, in tenths
NBA_back_to_back_lines(away, home) ==
    LET away_b2b == DictGet(away, "is_back_to_back", FALSE)
        home_b2b == DictGet(home, "is_back_to_back", FALSE)
    IN  IF away_b2b /\ home_b2b
        THEN <<Some(NBA_SITUATIONAL_ADJUSTMENTS.both_b2b_cancel)>>
        ELSE (IF away_b2b
              THEN <<Some(IF DictGet(away, "is_second_road_b2b", FALSE)
                          THEN NBA_SITUATIONAL_ADJUSTMENTS.b2b_second_road
                          ELSE NBA_SITUATIONAL_ADJUSTMENTS.b2b_road)>>
              ELSE << >>)
             \o (IF home_b2b
                 THEN <<Some(-NBA_SITUATIONAL_ADJUSTMENTS.b2b_home)>>
                 ELSE << >>)

\* every branch of a rest block prints the value it adds
RestLines(adj) == IF adj = 0 THEN << >> ELSE <<Some(adj)>>

NCAA_back_to_back_lines(away, home) ==
    (IF DictGet(away, "is_back_to_back", FALSE)
     THEN <<Some(NCAA_SITUATIONAL_ADJUSTMENTS.back_to_back_road)>> ELSE << >>)
    \o (IF DictGet(home, "is_back_to_back", FALSE)
        THEN <<Some(-NCAA_SITUATIONAL_ADJUSTMENTS.back_to_back)>> ELSE << >>)

\* adj_em of a team in tenths, "or 0"
AdjEmOr0(t) == OrElse(Get(t, "adj_em"), 0)

efficiency_gap(away, home) == Abs(AdjEmOr0(away) - AdjEmOr0(home))

\* situational_scale of the NCAA class, in hundredths
NCAA_situational_scale(away, home) ==
    LET gap == efficiency_gap(away, home)
    IN  IF gap > 250 THEN 25
        ELSE IF gap > 200 THEN 33
        ELSE IF gap > 150 THEN 50
        ELSE 100

\* total_adj before the last step of the function, in tenths
UnscaledTotal(sp, in) ==
    IF sp = "NCAA"
    THEN NCAA_back_to_back_adj(in.away, in.home) + NCAA_rest_adj(in.away, in.home)
    ELSE NBA_back_to_back_adj(in.away, in.home) + NBA_rest_adj(in.away, in.home)

\* total_adjustment of calculate_situational_adjustments of the class
\* running, in PT units: the NCAA class multiplies total_adj by
\* situational_scale when the scale is below 1.0, the NBA class has no such
\* step; both return round(total_adj, 1)
SituationalOf(sp, in) ==
    IF sp = "NCAA"
    THEN RoundTo(UnscaledTotal(sp, in) * NCAA_situational_scale(in.away, in.home) * 10, TENTH)
    ELSE UnscaledTotal(sp, in) * TENTH

\* the adjustments list of the result; a line that prints no point value
\* (the note of the NCAA scaling) is None
AdjustmentsOf(sp, in) ==
    IF sp = "NCAA"
    THEN NCAA_back_to_back_lines(in.away, in.home)
         \o RestLines(NCAA_rest_adj(in.away, in.home))
         \o (IF NCAA_situational_scale(in.away, in.home) < 100 THEN <<None>> ELSE << >>)
    ELSE NBA_back_to_back_lines(in.away, in.home)
         \o RestLines(NBA_rest_adj(in.away, in.home))

(***************************************************************************)
(* SpecSchedule: the situational total of a game, and then of the same     *)
(* game with the back-to-back flags of both teams cleared.                 *)
(***************************************************************************)
MaxRestGap == 5

\* adj_em of the teams that carry one, in tenths: gaps on both sides of the
\* three steps of the scale
GapGrid == {Some(0), Some(155), Some(205), Some(255)}

ScheduleTeams ==
    [is_back_to_back : BOOLEAN, is_second_road_b2b : BOOLEAN]
    \cup [is_back_to_back : BOOLEAN, is_second_road_b2b : BOOLEAN,
          rest_days : {1, 1 + MaxRestGap}]
    \cup [is_back_to_back : BOOLEAN, rest_days : {1, 3, 4}]
    \cup [is_back_to_back : BOOLEAN, adj_em : GapGrid]

InitSchedule ==
    /\ sport \in Sports
    /\ pc = "schedule"
    /\ call = NoCall /\ prev = NoCall /\ team = NoTeam
    /\ IdleRun

CallSituational ==
    /\ pc = "schedule"
    /\ call = NoCall
    /\ \E a \in ScheduleTeams, h \in ScheduleTeams :
          LET in == [away |-> a, home |-> h]
          IN  call' = [fn |-> "situational", in |-> in,
                       total_adjustment |-> SituationalOf(sport, in),
                       adjustments |-> AdjustmentsOf(sport, in)]
    /\ UNCHANGED <<sport, pc, prev, team>> /\ UnchangedRun

\* the same two teams when neither played the day before
ClearBackToBack ==
    /\ pc = "schedule"
    /\ call.fn = "situational"
    /\ prev = NoCall
    /\ LET in == [away |-> [call.in.away EXCEPT !.is_back_to_back = FALSE],
                  home |-> [call.in.home EXCEPT !.is_back_to_back = FALSE]]
       IN  call' = [fn |-> "situational", in |-> in,
                    total_adjustment |-> SituationalOf(sport, in),
                    adjustments |-> AdjustmentsOf(sport, in)]
    /\ prev' = call
    /\ UNCHANGED <<sport, pc, team>> /\ UnchangedRun

NextSchedule ==
    \/ CallSituational
    \/ ClearBackToBack

SpecSchedule == InitSchedule /\ [][NextSchedule]_vars

\* the sum of the away team's and the home team's back-to-back penalties,
\* as the rules apply them when one team only is on a back-to-back
SumOfPenalties(sp, in) ==
    LET rested(t) == [t EXCEPT !.is_back_to_back = FALSE]
        only_away == [away |-> in.away, home |-> rested(in.home)]
        only_home == [away |-> rested(in.away), home |-> in.home]
        neither == [away |-> rested(in.away), home |-> rested(in.home)]
    IN  (SituationalOf(sp, only_away) - SituationalOf(sp, neither))
        + (SituationalOf(sp, only_home) - SituationalOf(sp, neither))

\* C20: with both teams on a back-to-back, the back-to-back rules move the
\* situational total by the dedicated both-teams value, and not by the sum
\* of the two teams' penalties.
C20_BothBackToBackDedicatedValue ==
    (/\ prev.fn = "situational"
     /\ prev.in.away.is_back_to_back /\ prev.in.home.is_back_to_back)
    => /\ prev.total_adjustment - call.total_adjustment
          # SumOfPenalties(sport, prev.in)
       /\ sport = "NBA"
          => prev.total_adjustment - call.total_adjustment
             = NBA_SITUATIONAL_ADJUSTMENTS.both_b2b_cancel * TENTH

RECURSIVE SumOfLines(_)
SumOfLines(lines) ==
    IF lines = << >> THEN 0
    ELSE (IF IsNone(Head(lines)) THEN 0 ELSE Val(Head(lines)))
         + SumOfLines(Tail(lines))

\* C21: the total of a situational result, before the scaling of the last
\* step, is the sum of the signed values its adjustment lines show.
C21_TotalIsSumOfListedValues ==
    call.fn = "situational"
    => UnscaledTotal(sport, call.in) = SumOfLines(call.adjustments)

\* the scale the code has for an efficiency gap, in hundredths
ScaleForGap(in) == NCAA_situational_scale(in.away, in.home)

\* C22: when the gap between the two teams' net ratings is above a step of
\* the scale, the returned total is the sum of the adjustments times the
\* scale of that gap, rounded to one decimal as every returned total is.
C22_LargeGapTotalIsScaled ==
    (call.fn = "situational" /\ ScaleForGap(call.in) < 100)
    => call.total_adjustment
       = RoundTo(UnscaledTotal(sport, call.in) * ScaleForGap(call.in) * 10, TENTH)

\* the rolling rating a team has when it has exactly one of the two, with
\* the configured weight of its window
OnlyRolling(t, kind) ==
    LET r10 == Get(t, "rolling_10_" \o kind)
        r20 == Get(t, "rolling_20_" \o kind)
    IN  IF ~IsNone(r10) /\ IsNone(r20)
        THEN Some([rating |-> Val(r10), weight |-> NBA_ROLLING_10_WEIGHT])
        ELSE IF IsNone(r10) /\ ~IsNone(r20)
        THEN Some([rating |-> Val(r20), weight |-> NBA_ROLLING_20_WEIGHT])
        ELSE None

\* C23: with exactly one rolling rating absent, the blend weighs the season
\* rating and the remaining rolling rating by their configured weights
\* rescaled to sum to 1: blend * (w_season + w_rolling) is
\* season * w_season + rolling * w_rolling.  Checked on the away team's
\* offensive rating when it has a season rating and no away split.
C23_MissingRollingWeightRedistributed ==
    (/\ call.fn = "expected" /\ sport = "NBA"
     /\ ~IsNone(OnlyRolling(call.in.away, "oe"))
     /\ ~IsNone(Get(call.in.away, "adj_oe"))
     /\ IsNone(Get(call.in.away, "away_oe")))
    => LET r == Val(OnlyRolling(call.in.away, "oe"))
           season == Val(Get(call.in.away, "adj_oe"))
       IN  NBA_blend_efficiency(call.in.away, "oe", "away", NBA_AVG_EFFICIENCY)
               * (NBA_SEASON_WEIGHT + r.weight)
           = (season * NBA_SEASON_WEIGHT + r.rating * r.weight) * 100

(***************************************************************************)
(* The two team scores NBAAnalyzer.calculate_expected_score returns, in    *)
(* tenths: round(ppp * expected_tempo / 100 -+ hca / 2, 1).  The function   *)
(* has no rescaling step: the scores it returns are the ones the spread    *)
(* and raw_total are computed from.  (NCAAAnalyzer multiplies both scores  *)
(* by predicted_total / raw_total before rounding; that quotient is not    *)
(* modelled.)                                                              *)
(***************************************************************************)
\* ppp in 1/100000, tempo in 1/20000, hca_signed in tenths (the advantage
\* for the home score, minus the advantage for the away score)
NBA_round_score(ppp, tempo, hca_signed) ==
    LET p == MulLimbs(50 * ppp, tempo)
        h == 2 * p[1] + hca_signed + (IF p[2] >= LIMB \div 2 THEN 1 ELSE 0)
    IN  RoundHalfUnits(h, p[2] % (LIMB \div 2) = 0 /\ p[3] = 0 /\ p[4] = 0)

NBA_team_scores(away, home, home_name, neutral) ==
    LET away_oe == NBA_blend_efficiency(away, "oe", "away", NBA_AVG_EFFICIENCY)
        away_de == NBA_blend_efficiency(away, "de", "away", NBA_AVG_EFFICIENCY)
        home_oe == NBA_blend_efficiency(home, "oe", "home", NBA_AVG_EFFICIENCY)
        home_de == NBA_blend_efficiency(home, "de", "home", NBA_AVG_EFFICIENCY)
        expected_tempo == 9 * (NBA_blend_tempo(away) + NBA_blend_tempo(home))
                          + 200 * NBA_AVG_PACE
        away_ppp == NBA_regress(away_oe)
                    + (NBA_regress(home_de) - NBA_AVG_EFFICIENCY * 10000)
        home_ppp == NBA_regress(home_oe)
                    + (NBA_regress(away_de) - NBA_AVG_EFFICIENCY * 10000)
        hca == NBA_get_home_court_advantage(home_name, neutral)
    IN  [away_score |-> NBA_round_score(away_ppp, expected_tempo, -hca),
         home_score |-> NBA_round_score(home_ppp, expected_tempo, hca)]

\* C24: in a returned projection the two team scores sum to the projected
\* total and differ by the projected spread, each within the 0.1 that
\* rounding the three reported values to one decimal allows.
C24_ScoresMatchTotalAndSpread ==
    (call.fn = "expected" /\ sport = "NBA")
    => LET s == NBA_team_scores(call.in.away, call.in.home,
                                call.in.home_name, call.in.neutral)
       IN  /\ Abs((s.away_score + s.home_score) * TENTH - Val(call.predicted_total))
              <= TENTH
           /\ Abs((s.away_score - s.home_score) * TENTH
                  - Val(call.out).predicted_spread) <= TENTH

(***************************************************************************)
(* SpecRace: two runs of evaluate_params on one data file each, in one     *)
(* process, with different parameter sets.  cfg is the attribute table of  *)
(* the module nba.nba_config, which both runs write; old and params are    *)
(* the locals of each run.  A run saves the five attributes in old_*,      *)
(* assigns its overrides, runs the analysis and assigns old_* back, after  *)
(* the scoring or in the except branch; the other run may be scheduled     *)
(* between any two of these blocks.                                        *)
(***************************************************************************)
Runs == {1, 2}

\* the parameter sets of the two runs: corners of PARAM_GRID
RaceParams ==
    {p \in PARAM_GRID : /\ p.HOME_COURT_ADVANTAGE \in {15, 25}
                        /\ p.SEASON_WEIGHT \in {35, 50}
                        /\ p.LOCATION_BLEND_WEIGHT = 30
                        /\ p.ff_weight = 15}

RunStart(params) == [at |-> "start", params |-> params, old |-> None]

InitRace ==
    /\ sport = "NBA"
    /\ pc = "race"
    /\ \E p1 \in RaceParams, p2 \in RaceParams :
          /\ p1 # p2
          /\ call = [fn |-> "race", cfg |-> nba_config_imported,
                     run |-> [r \in Runs |-> RunStart(IF r = 1 THEN p1 ELSE p2)]]
    /\ prev = NoCall /\ team = NoTeam
    /\ IdleRun

RaceStep(r, at, cfg, old) ==
    call' = [call EXCEPT !.cfg = cfg, !.run[r].at = at, !.run[r].old = old]

\* old_hca = cfg.HOME_COURT_ADVANTAGE ... old_lbw = cfg.LOCATION_BLEND_WEIGHT
SaveOld(r) ==
    /\ pc = "race" /\ call.run[r].at = "start"
    /\ RaceStep(r, "saved", call.cfg, Some(call.cfg))
    /\ UNCHANGED <<sport, pc, prev, team>> /\ UnchangedRun

\* cfg.HOME_COURT_ADVANTAGE = params[...] ... cfg.LOCATION_BLEND_WEIGHT = ...
AssignOverrides(r) ==
    /\ pc = "race" /\ call.run[r].at = "saved"
    /\ RaceStep(r, "overridden", override_config(call.cfg, call.run[r].params),
                call.run[r].old)
    /\ UNCHANGED <<sport, pc, prev, team>> /\ UnchangedRun

\* analyses = analyzer.analyze_all_games(); fetch_actual_results
AnalyzeAndFetch(r) ==
    /\ pc = "race" /\ call.run[r].at = "overridden"
    /\ RaceStep(r, "analyzed", call.cfg, call.run[r].old)
    /\ UNCHANGED <<sport, pc, prev, team>> /\ UnchangedRun

\* cfg.HOME_COURT_ADVANTAGE = old_hca ... cfg.LOCATION_BLEND_WEIGHT = old_lbw
AssignOld(r) ==
    /\ pc = "race" /\ call.run[r].at = "analyzed"
    /\ RaceStep(r, "finished", Val(call.run[r].old), call.run[r].old)
    /\ UNCHANGED <<sport, pc, prev, team>> /\ UnchangedRun

NextRace ==
    \E r \in Runs :
        \/ SaveOld(r)
        \/ AssignOverrides(r)
        \/ AnalyzeAndFetch(r)
        \/ AssignOld(r)

SpecRace == InitRace /\ [][NextRace]_vars

\* C25: when both runs have finished, every configuration constant of the
\* module has the value it had before either run started.
C25_ConstantsRestoredAfterBothRuns ==
    (call.fn = "race" /\ \A r \in Runs : call.run[r].at = "finished")
    => call.cfg = nba_config_imported

\* the state generate_report starts a game with: nothing collected yet
NothingCollected ==
    [moneyline_picks |-> << >>, spread_picks |-> << >>, totals_picks |-> << >>,
     avoid_games |-> << >>, cfg_bound |-> TRUE, raised |-> FALSE,
     continued |-> FALSE]

\* the analysis of the same game when the spread assessment is a PASS
WithoutSpreadCandidate(an) == [an EXCEPT !.spread_value.pick_team = "PASS"]

\* the loop body of the class running emits a total pick for the game
EmitsTotalPick(sp, an) ==
    LET out == IF sp = "NCAA" THEN NCAA_collect(an, NothingCollected)
               ELSE NBA_collect(an, NothingCollected)
    IN  out.totals_picks # << >>

\* C26: a game whose total would be picked if its spread assessment were a
\* PASS has its total picked whatever the spread candidate is and whatever
\* becomes of it.
C26_TotalPickIgnoresSpreadCandidate ==
    pc = "done" =>
        \A k \in DOMAIN analyses :
            LET an == analyses[k]
            IN  (/\ ~an.error
                 /\ SpreadCandidate(an)
                 /\ EmitsTotalPick(sport, WithoutSpreadCandidate(an)))
                => TotalPicked(an)


(***************************************************************************)
(* The results side of the pick tracker: update_results settles the        *)
(* pending picks of earlier days from the scores ESPN reports, and         *)
(* seed_from_backtest copies the picks of nba_backtest_results.json into   *)
(* the history as settled picks.                                           *)
(***************************************************************************)
\* update_results, lines 236-258: the pick after its score arrived
settle_pick(pick, score) ==
    LET actual_margin == score.margin
        line == Get(pick, "spread_line")
        settled == MergeDicts(pick,
                       [actual_away_score |-> Some(score.away_score),
                        actual_home_score |-> Some(score.home_score),
                        result |-> Some("final")])
        spread_checked ==
            IF ~IsNone(Get(pick, "spread_pick")) /\ ~IsNone(line)
            THEN IF Val(pick.spread_pick) = "AWAY"
                 THEN MergeDicts(settled,
                        [spread_correct |-> Some(actual_margin + Val(line) > 0)])
                 ELSE IF Val(pick.spread_pick) = "HOME"
                      THEN MergeDicts(settled,
                        [spread_correct |-> Some(-(actual_margin + Val(line)) > 0)])
                      ELSE settled
            ELSE settled
    IN  IF ~IsNone(Get(pick, "ml_pick"))
        THEN MergeDicts(spread_checked,
               [ml_correct |-> Some(Val(pick.ml_pick)
                    = (IF actual_margin > 0 THEN pick.away_team
                                            ELSE pick.home_team))])
        ELSE spread_checked

\* update_results: fetch[d] is what fetch_espn_scores returns for date d
\* (empty when the request fails or no game is final).  Only a pick without
\* a result, of a date other than today, whose game has a score is touched.
update_results(data, fetch, day) ==
    [data EXCEPT !.picks =
        [i \in DOMAIN @ |->
            IF /\ IsNone(Get(@[i], "result"))
               /\ @[i].date # day
               /\ @[i].game_id \in DOMAIN fetch[@[i].date]
            THEN settle_pick(@[i], fetch[@[i].date][@[i].game_id])
            ELSE @[i]]]

\* away_team[:3] of the names the tracker model uses
FirstThree(name) ==
    IF name = "Boston Celtics" THEN "Bos"
    ELSE IF name = "Miami Heat" THEN "Mia" ELSE name

\* seed_from_backtest, lines 289-322: the stored pick of one backtest pick
seeded_pick(bp) ==
    LET base == [game_id |-> <<"bt", bp.date, FirstThree(bp.away_team),
                               FirstThree(bp.home_team)>>,
                 date |-> bp.date,
                 away_team |-> bp.away_team,
                 home_team |-> bp.home_team,
                 actual_away_score |-> Get(bp, "actual_away_score"),
                 actual_home_score |-> Get(bp, "actual_home_score"),
                 result |-> Some("final")]
        spread == IF ~IsNone(Get(bp, "spread_pick"))
                  THEN MergeDicts(base,
                         [spread_pick |-> bp.spread_pick,
                          spread_line |-> Get(bp, "closing_spread"),
                          spread_correct |-> Some(Get(bp, "spread_result") = Some("WIN")),
                          spread_hit_pct |-> None])
                  ELSE base
    IN  IF ~IsNone(Get(bp, "ml_pick"))
        THEN MergeDicts(spread,
               [ml_pick |-> bp.ml_pick,
                ml_correct |-> Some(Get(bp, "ml_result") = Some("WIN")),
                ml_hit_pct |-> None])
        ELSE spread

pick_key(p) == <<p.date, p.away_team, p.home_team>>

\* seed_from_backtest: a backtest pick whose (date, away, home) is already
\* in the history, or was seeded earlier in the loop, is skipped; a missing
\* backtest file (None) leaves the history alone
RECURSIVE seed_picks(_, _)
seed_picks(picks, bps) ==
    IF bps = << >> THEN picks
    ELSE IF \E i \in DOMAIN picks : pick_key(picks[i]) = pick_key(bps[1])
         THEN seed_picks(picks, Tail(bps))
         ELSE seed_picks(Append(picks, seeded_pick(bps[1])), Tail(bps))

seed_from_backtest(data, backtest) ==
    IF IsNone(backtest) THEN data
    ELSE [data EXCEPT !.picks = seed_picks(@, Val(backtest).picks)]

(***************************************************************************)
(* SpecLedger: the daily run saves and settles, the dashboard seeds the    *)
(* backtest, a day is locked, and the date only moves forward.             *)
(***************************************************************************)
LedgerGames ==
    <<[away |-> TrackerMatchup[1], home |-> TrackerMatchup[2], game_id |-> "401"]>>

LedgerAnalysis ==
    [error |-> FALSE, away_name |-> TrackerMatchup[1],
     home_name |-> TrackerMatchup[2],
     spread_value |-> [pick_team |-> "AWAY", hit_pct |-> TOP_PLAY_HIT_PCT,
                       actual_spread |-> Some(-35 * TENTH)],
     ml_value |-> [ml_pick |-> "HOME_ML", hit_pct |-> TOP_PLAY_HIT_PCT + 1]]

LedgerRuns == { << >>, <<LedgerAnalysis>> }

FinalScore ==
    [away_score |-> 110, home_score |-> 100, total |-> 210, margin |-> 10]

\* what fetch_espn_scores can return for one date
ScoreFeeds == { EmptyDict, [g \in {"401"} |-> FinalScore] }

\* nba_backtest.py writes one pick per game of each tested date, and a
\* tested date can be any date whose games are final, the current one too
BacktestPick(d) ==
    [date |-> d, away_team |-> TrackerMatchup[1], home_team |-> TrackerMatchup[2],
     actual_away_score |-> Some(110), actual_home_score |-> Some(100),
     spread_pick |-> Some("AWAY"), closing_spread |-> Some(-35 * TENTH),
     spread_result |-> Some("WIN")]

BacktestFiles ==
    {None} \cup {Some([picks |-> <<BacktestPick(d)>>]) : d \in 1..MaxDay}
    \cup {Some([picks |-> <<BacktestPick(1), BacktestPick(MaxDay)>>])}

InitLedger ==
    /\ sport = "NBA"
    /\ pc = "ledger"
    /\ call = NoCall /\ prev = NoCall /\ team = NoTeam
    /\ IdleRun

DailyRunSaves ==
    /\ pc = "ledger"
    /\ \E as \in LedgerRuns :
        /\ picks_file' = save_today_picks(load_picks, as, LedgerGames, today)
        /\ tracker_op' = [op |-> "save",
                          qualifying |-> QualifyingPicks(as, LedgerGames, today)]
    /\ UNCHANGED today
    /\ UnchangedPipeline

UpdateResults ==
    /\ pc = "ledger"
    /\ \E fetch \in [1..MaxDay -> ScoreFeeds] :
        /\ picks_file' = update_results(load_picks, fetch, today)
        /\ tracker_op' = [op |-> "update", fetch |-> fetch]
    /\ UNCHANGED today
    /\ UnchangedPipeline

SeedFromBacktest ==
    /\ pc = "ledger"
    /\ \E backtest \in BacktestFiles :
        /\ picks_file' = seed_from_backtest(load_picks, backtest)
        /\ tracker_op' = [op |-> "seed", backtest |-> backtest]
    /\ UNCHANGED today
    /\ UnchangedPipeline

LockADay ==
    /\ pc = "ledger"
    /\ \E d \in 1..MaxDay :
        /\ picks_file' = lock_day(load_picks, d)
        /\ tracker_op' = [op |-> "lock", date |-> d]
    /\ UNCHANGED today
    /\ UnchangedPipeline

DateAdvances ==
    /\ pc = "ledger"
    /\ today < MaxDay
    /\ today' = today + 1
    /\ tracker_op' = [op |-> "midnight"]
    /\ UNCHANGED picks_file
    /\ UnchangedPipeline

NextLedger ==
    \/ DailyRunSaves
    \/ UpdateResults
    \/ SeedFromBacktest
    \/ LockADay
    \/ DateAdvances

SpecLedger == InitLedger /\ [][NextLedger]_vars

\* C27: a stored pick whose result is 'final' is still in the history,
\* field for field, after any later save_today_picks, update_results,
\* lock_day or seed_from_backtest call, the date never moving backwards.
C27_FinalPickIsKept ==
    [][\A i \in DOMAIN picks_file.picks :
          Get(picks_file.picks[i], "result") = Some("final")
              => \E j \in DOMAIN picks_file'.picks :
                     picks_file'.picks[j] = picks_file.picks[i]]_vars


(***************************************************************************)
(* Line movement tracking of the NCAA scraper (scrape_ncaa_data.py).       *)
(* line_history is the content of the day's lines file; every scrape       *)
(* appends a snapshot and records the consensus spread and total of each   *)
(* game of the odds it fetched.  The time of a snapshot is its ordinal in  *)
(* the day; lines are in PT units.                                         *)
(***************************************************************************)
MaxSnapshots == 2

\* update_line_history, lines 108-124: a game seen for the first time
first_seen(current_spread, current_total, current_time) ==
    [opening_spread |-> current_spread,
     opening_total |-> current_total,
     opening_time |-> current_time,
     current_spread |-> current_spread,
     current_total |-> current_total,
     last_updated |-> current_time,
     spread_history |-> IF Truthy(current_spread)
                        THEN <<[time |-> current_time, spread |-> current_spread]>>
                        ELSE << >>,
     total_history |-> IF Truthy(current_total)
                       THEN <<[time |-> current_time, total |-> current_total]>>
                       ELSE << >>]

seen_again_mutant(game_history, current_spread, current_total, current_time) ==
    first_seen(current_spread, current_total, current_time)

\* update_line_history, lines 125-145: a game already in the history
seen_again(game_history, current_spread, current_total, current_time) ==
    LET spread_updated ==
            IF ~IsNone(current_spread)
            THEN [game_history EXCEPT
                    !.current_spread = current_spread,
                    !.spread_history = Append(@, [time |-> current_time,
                                                  spread |-> current_spread])]
            ELSE game_history
        total_updated ==
            IF ~IsNone(current_total)
            THEN [spread_updated EXCEPT
                    !.current_total = current_total,
                    !.total_history = Append(@, [time |-> current_time,
                                                 total |-> current_total])]
            ELSE spread_updated
    IN  [total_updated EXCEPT !.last_updated = current_time]

update_line_history(history, odds_data, current_time) ==
    [snapshots |-> Append(history.snapshots, [time |-> current_time]),
     games |->
        [game_key \in DOMAIN history.games \cup DOMAIN odds_data |->
            IF game_key \notin DOMAIN odds_data THEN history.games[game_key]
            ELSE LET consensus == odds_data[game_key].consensus
                 IN  IF game_key \notin DOMAIN history.games
                     THEN first_seen(consensus.spread, consensus.total, current_time)
                     ELSE seen_again(history.games[game_key], consensus.spread,
                                     consensus.total, current_time)]]

\* the signals of calculate_line_movement, lines 168-189
movement_signals(spread_move, total_move) ==
    (IF IsNone(spread_move) THEN << >>
     ELSE IF Abs(Val(spread_move)) >= 25 * TENTH THEN <<"SHARP spread">>
     ELSE IF Abs(Val(spread_move)) >= 15 * TENTH THEN <<"Notable spread">>
     ELSE << >>)
    \o
    (IF IsNone(total_move) THEN << >>
     ELSE IF Abs(Val(total_move)) >= 3 * PT THEN <<"SHARP total">>
     ELSE IF Abs(Val(total_move)) >= 2 * PT THEN <<"Notable total">>
     ELSE << >>)

calculate_line_movement(history) ==
    [game_key \in DOMAIN history.games |->
        LET game_data == history.games[game_key]
            spread_move ==
                IF ~IsNone(game_data.opening_spread) /\ ~IsNone(game_data.current_spread)
                THEN Some(RoundTo(Val(game_data.current_spread)
                                  - Val(game_data.opening_spread), TENTH))
                ELSE None
            total_move ==
                IF ~IsNone(game_data.opening_total) /\ ~IsNone(game_data.current_total)
                THEN Some(RoundTo(Val(game_data.current_total)
                                  - Val(game_data.opening_total), TENTH))
                ELSE None
            signals == movement_signals(spread_move, total_move)
        IN  [opening_spread |-> game_data.opening_spread,
             current_spread |-> game_data.current_spread,
             spread_movement |-> spread_move,
             opening_total |-> game_data.opening_total,
             current_total |-> game_data.current_total,
             total_movement |-> total_move,
             opening_time |-> game_data.opening_time,
             snapshots_count |-> Len(game_data.spread_history),
             signals |-> signals,
             has_sharp_action |->
                 \E k \in DOMAIN signals :
                     signals[k] \in {"SHARP spread", "SHARP total"}]]

(***************************************************************************)
(* SpecLines: the scraper runs several times in a day; every run fetches   *)
(* the odds of the games on offer at that time.                            *)
(***************************************************************************)
LineGames == {"Duke @ UNC", "Elon @ Yale"}

ConsensusGrid ==
    [spread : {None, Some(0), Some(-35 * TENTH)},
     total : {None, Some(140 * PT)}]

\* the odds of one fetch: some of the games, each with a consensus; run()
\* skips the update when the fetch returned nothing
OddsSnapshots ==
    UNION { [S -> [consensus : ConsensusGrid]] : S \in SUBSET LineGames \ {{}} }

InitLines ==
    /\ sport = "NCAA"
    /\ pc = "lines"
    /\ call = NoCall /\ prev = NoCall /\ team = NoTeam
    /\ IdleRun

ScrapeOdds ==
    /\ pc = "lines"
    /\ Len(line_history.snapshots) < MaxSnapshots
    /\ \E odds_data \in OddsSnapshots :
        LET history == update_line_history(line_history, odds_data,
                                           Len(line_history.snapshots) + 1)
        IN  /\ line_history' = history
            /\ call' = [fn |-> "update_line_history", odds |-> odds_data,
                        line_movement |-> calculate_line_movement(history)]
    /\ UNCHANGED <<sport, pc, prev, team, games, idx, analyses, spread_picks,
                   totals_picks, moneyline_picks, avoid_games, all_ranked,
                   cfg_bound, picks_file, today, tracker_op>>

NextLines == ScrapeOdds

SpecLines == InitLines /\ [][NextLines]_vars

LopsidedInputs ==
    [predicted_spread : {-10 * PT, -8 * PT, -3 * PT, 0, 3 * PT, 8 * PT, 10 * PT},
     situational_adj : {-13 * PT, -8 * PT, 0, 8 * PT, 13 * PT},
     four_factors_edge : {None, Some(-2 * PT), Some(2 * PT)},
     signal : SignalGrid,
     spread_movement : MovementGrid,
     actual_spread : {None, Some(-155 * TENTH), Some(155 * TENTH)},
     away_ml : {None, Some(250)}, home_ml : {None, Some(-300)}]

\* analyze_game, lines 836-894: the model spread, the two valuations it is
\* passed to and the predicted_spread of the analysis
NBA_analyze_spread(in) ==
    LET adjusted_spread ==
            NBA_adjusted_spread(in.predicted_spread, in.situational_adj,
                                in.four_factors_edge, in.signal,
                                in.spread_movement, in.actual_spread)
    IN  [adjusted_spread |-> adjusted_spread,
         expected |-> [predicted_spread |-> Round1(adjusted_spread)],
         spread_value |-> NBA_calculate_spread_value(adjusted_spread,
                                                     in.actual_spread),
         ml_value |-> NBA_calculate_moneyline_value(adjusted_spread,
                                                    in.away_ml, in.home_ml)]

InitCap ==
    /\ sport = "NBA"
    /\ pc = "cap"
    /\ call = NoCall /\ prev = NoCall /\ team = NoTeam
    /\ IdleRun

AnalyzeLopsidedGame ==
    /\ pc = "cap"
    /\ call = NoCall
    /\ \E in \in LopsidedInputs :
          call' = [fn |-> "analyze_game", in |-> in,
                   out |-> NBA_analyze_spread(in)]
    /\ UNCHANGED <<sport, pc, prev, team>> /\ UnchangedRun

NextCap == AnalyzeLopsidedGame

SpecCap == InitCap /\ [][NextCap]_vars

\* C29: the model spread analyze_game passes to the spread and moneyline
\* valuation, and the predicted_spread it reports, are within [-16.0, 16.0]
\* for every game, a game with a line-movement signal included.
C29_ModelSpreadWithinCap ==
    call.fn = "analyze_game"
        => /\ Abs(call.out.adjusted_spread) <= 16 * PT
           /\ Abs(call.out.expected.predicted_spread) <= 16 * PT


\* the latest call values the matchup of the call before it with the two
\* teams listed the other way round, on a neutral site
IsNeutralSwap ==
    /\ call.fn = "expected" /\ prev.fn = "expected"
    /\ call.in.neutral /\ prev.in.neutral
    /\ call.in.away = prev.in.home /\ call.in.home = prev.in.away
    /\ call.in.away_name = prev.in.home_name
    /\ call.in.home_name = prev.in.away_name
    /\ ~IsNone(call.out) /\ ~IsNone(prev.out)

\* C30: on a neutral site, listing the two teams the other way round
\* negates the projected spread and leaves the projected total unchanged.
C30_NeutralSwapNegatesSpread ==
    IsNeutralSwap
        => /\ Val(call.out).predicted_spread = -Val(prev.out).predicted_spread
           /\ call.predicted_total = prev.predicted_total

====
